---- MODULE Spec2Model ----
(***************************************************************************)
(* agentmap: extraction of top-level definitions from a syntax tree        *)
(* (cli/src/extract/definitions.ts), attribution of a file's diff to its   *)
(* definitions, the scan of a directory (scanner.ts) with its worker pool, *)
(* the parser module (parser/index.ts, parser/languages.ts), the map       *)
(* builder and the OpenCode plugin (opencode/src/index.ts).                *)
(*                                                                         *)
(* A SyntaxNode is a record                                                *)
(*   [type, text, startRow, endRow, children, fields]                      *)
(* where children is the ordered sequence of child nodes and fields[i] is  *)
(* the grammar field name of children[i] ("" when the child has none).     *)
(* Texts (identifier names, keyword texts) are sequences of one-character  *)
(* strings, so that charAt / startsWith / slice are computed, not assumed. *)
(* A string-or-null result is the empty text when null: the code only      *)
(* tests such results for truthiness, and "" and null are both falsy.      *)
(***************************************************************************)
EXTENDS Integers, Sequences, FiniteSets, TLC

VARIABLES language, rootNode, pc, definitions, fileDiff

\* the state of a scan (scanDirectory)
VARIABLES tracked, options, diffFails, files, fileStats, fileDiffs, diffCalls,
          tasks, scanPc, results

scanVars == <<tracked, options, diffFails, files, fileStats, fileDiffs,
              diffCalls, tasks, scanPc, results>>

\* the worker pool of a scan over a file list known by its length
VARIABLES candidates, includeDiff, poolPc, diffInvocations, queued, active,
          finished, reported

poolVars == <<candidates, includeDiff, poolPc, diffInvocations, queued, active,
              finished, reported>>

\* the parser module (parser/index.ts, parser/languages.ts) and the
\* parseCode calls in flight
VARIABLES initialized, sharedParser, parserInitialized, grammarCache,
          parsers, runtimeInits, loads, resets, clears, calls

parserVars == <<initialized, sharedParser, parserInitialized, grammarCache,
                parsers, runtimeInits, loads, resets, clears, calls>>

\* the map under construction (buildMap)
VARIABLES buildResults, buildIndex, mapRoot

mapVars == <<buildResults, buildIndex, mapRoot>>

\* the OpenCode plugin: its closure variables and the hooks in flight
VARIABLES cachedYaml, lastSessionID, transforms, epoch, messages,
          generations, repository

pluginVars == <<cachedYaml, lastSessionID, transforms, epoch, messages,
                generations, repository>>

componentVars == <<poolVars, parserVars, mapVars, pluginVars>>

vars == <<language, rootNode, pc, definitions, fileDiff, scanVars,
          componentVars>>

\* an absent FileDiff / FileDiffStats / lookup map (undefined, null)
NoFileDiff == [defined |-> FALSE, path |-> << >>, hunks |-> << >>]
NoStats == [defined |-> FALSE, added |-> 0, deleted |-> 0]
NoMap == [defined |-> FALSE, entries |-> << >>]

\* no scan is under way
NoScan ==
  /\ tracked = << >>
  /\ options = [diff |-> FALSE, ignore |-> << >>, filter |-> << >>]
  /\ diffFails = FALSE
  /\ files = << >>
  /\ fileStats = NoMap
  /\ fileDiffs = NoMap
  /\ diffCalls = 0
  /\ tasks = << >>
  /\ scanPc = "idle"
  /\ results = << >>

\* no pool is at work
NoPool ==
  /\ candidates = 0
  /\ includeDiff = FALSE
  /\ poolPc = "idle"
  /\ diffInvocations = 0
  /\ queued = 0
  /\ active = 0
  /\ finished = 0
  /\ reported = 0

\* the parser module as loaded, with no call made
NoParser ==
  /\ initialized = FALSE
  /\ sharedParser = 0
  /\ parserInitialized = FALSE
  /\ grammarCache = << >>
  /\ parsers = << >>
  /\ runtimeInits = 0
  /\ loads = << >>
  /\ resets = 0
  /\ clears = 0
  /\ calls = << >>

\* no map is being built
NoBuild ==
  /\ buildResults = << >>
  /\ buildIndex = 0
  /\ mapRoot = {}

\* no plugin is installed
NoPlugin ==
  /\ cachedYaml = [defined |-> FALSE, value |-> "", epoch |-> 0]
  /\ lastSessionID = ""
  /\ transforms = << >>
  /\ epoch = 0
  /\ messages = 0
  /\ generations = << >>
  /\ repository = ""

NoComponents == NoPool /\ NoParser /\ NoBuild /\ NoPlugin

(***************************************************************************)
(* Program constants and tables                                            *)
(***************************************************************************)
MIN_BODY_LINES == 5

Languages == {"typescript", "javascript", "python", "rust", "go", "zig", "cpp"}

FUNCTION_TYPES ==
  [typescript |-> {"function_declaration", "method_definition"},
   javascript |-> {"function_declaration", "method_definition"},
   python     |-> {"function_definition"},
   rust       |-> {"function_item"},
   go         |-> {"function_declaration", "method_declaration"},
   zig        |-> {"function_declaration", "test_declaration"},
   cpp        |-> {"function_definition"}]

CLASS_TYPES ==
  [typescript |-> {"class_declaration", "abstract_class_declaration"},
   javascript |-> {"class_declaration"},
   python     |-> {"class_definition"},
   rust       |-> {},
   go         |-> {},
   zig        |-> {},
   cpp        |-> {"class_specifier"}]

STRUCT_TYPES ==
  [typescript |-> {}, javascript |-> {}, python |-> {},
   rust       |-> {"struct_item"},
   go         |-> {},
   zig        |-> {},
   cpp        |-> {"struct_specifier"}]

TRAIT_TYPES ==
  [typescript |-> {}, javascript |-> {}, python |-> {},
   rust       |-> {"trait_item"},
   go         |-> {}, zig |-> {}, cpp |-> {}]

INTERFACE_TYPES ==
  [typescript |-> {"interface_declaration"},
   javascript |-> {}, python |-> {}, rust |-> {}, go |-> {}, zig |-> {},
   cpp        |-> {}]

TYPE_TYPES ==
  [typescript |-> {"type_alias_declaration"},
   javascript |-> {},
   python     |-> {},
   rust       |-> {"type_item"},
   go         |-> {"type_declaration"},
   zig        |-> {},
   cpp        |-> {"type_definition", "alias_declaration"}]

ENUM_TYPES ==
  [typescript |-> {"enum_declaration"},
   javascript |-> {},
   python     |-> {},
   rust       |-> {"enum_item"},
   go         |-> {},
   zig        |-> {},
   cpp        |-> {"enum_specifier"}]

CONST_TYPES ==
  [typescript |-> {"lexical_declaration"},
   javascript |-> {"lexical_declaration"},
   python     |-> {},
   rust       |-> {"const_item", "static_item"},
   go         |-> {"const_declaration", "var_declaration"},
   zig        |-> {"variable_declaration"},
   cpp        |-> {"declaration"}]

(***************************************************************************)
(* Texts                                                                   *)
(***************************************************************************)
NoText == << >>

UpperAZ == {"A", "B", "C", "D", "E", "F", "G", "H", "I", "J", "K", "L", "M",
            "N", "O", "P", "Q", "R", "S", "T", "U", "V", "W", "X", "Y", "Z"}

startsWith(text, prefix) ==
  /\ Len(text) >= Len(prefix)
  /\ SubSeq(text, 1, Len(prefix)) = prefix

endsWith(text, suffix) ==
  /\ Len(text) >= Len(suffix)
  /\ SubSeq(text, Len(text) - Len(suffix) + 1, Len(text)) = suffix

TextPub == <<"p", "u", "b">>
TextExtern == <<"e", "x", "t", "e", "r", "n">>
TextQuote == <<"\"">>

(***************************************************************************)
(* SyntaxNode accessors                                                    *)
(***************************************************************************)
NullType == "NULL"

Node(type, text, startRow, endRow, children, fields) ==
  [type |-> type, text |-> text, startRow |-> startRow, endRow |-> endRow,
   children |-> children, fields |-> fields]

NullNode == Node(NullType, NoText, 0, 0, << >>, << >>)

IsNull(n) == n.type = NullType

childCount(n) == Len(n.children)

SetMin(S) == CHOOSE x \in S : \A y \in S : x <= y

\* index of the first child whose type is in T, 0 when there is none
firstOfTypes(n, T) ==
  LET S == {i \in 1..childCount(n) : n.children[i].type \in T}
  IN  IF S = {} THEN 0 ELSE SetMin(S)

childForFieldName(n, f) ==
  LET S == {i \in 1..childCount(n) : n.fields[i] = f}
  IN  IF S = {} THEN NullNode ELSE n.children[SetMin(S)]

findChild(n, type) ==
  LET i == firstOfTypes(n, {type})
  IN  IF i = 0 THEN NullNode ELSE n.children[i]

\* text of the first child whose type is in T, the empty text when none
firstTextOfTypes(n, T) ==
  LET i == firstOfTypes(n, T)
  IN  IF i = 0 THEN NoText ELSE n.children[i].text

getBodyLineCount(n) == n.endRow - n.startRow + 1

(***************************************************************************)
(* Export / extern detection helpers                                       *)
(***************************************************************************)
CommentTypes == {"comment", "html_comment"}

isExportStatement(n) == n.type = "export_statement"

unwrapExport(n) ==
  IF n.type = "export_statement"
  THEN LET S == {i \in 1..childCount(n) :
                   /\ n.children[i].type # "export"
                   /\ n.children[i].type \notin CommentTypes
                   /\ n.children[i].type # "default"}
       IN  IF S = {} THEN n ELSE n.children[SetMin(S)]
  ELSE n

isZigPub(n) ==
  LET i == firstOfTypes(n, {"pub", "identifier", "block"})
  IN  i # 0 /\ n.children[i].type = "pub"

isZigConst(n) ==
  LET i == firstOfTypes(n, {"const", "var"})
  IN  i # 0 /\ n.children[i].type = "const"

\* the definition type of a Zig container declaration, "" when there is none
getZigTypeDeclaration(n) ==
  LET i == firstOfTypes(n, {"struct_declaration", "union_declaration",
                            "enum_declaration"})
  IN  IF i = 0 THEN ""
      ELSE IF n.children[i].type = "struct_declaration" THEN "struct"
      ELSE IF n.children[i].type = "union_declaration" THEN "union"
      ELSE "enum"

isZigExtern(n) ==
  LET i == firstOfTypes(n, {"extern", "block", "fn"})
  IN  i # 0 /\ n.children[i].type = "extern"

isRustPub(n) ==
  LET i == firstOfTypes(n, {"visibility_modifier", "identifier",
                            "type_identifier"})
  IN  /\ i # 0
      /\ n.children[i].type = "visibility_modifier"
      /\ startsWith(n.children[i].text, TextPub)

isGoExported(name) ==
  IF Len(name) = 0 THEN FALSE ELSE name[1] \in UpperAZ

isCppExtern(n) ==
  /\ n.type \in {"declaration", "function_definition"}
  /\ \E i \in 1..childCount(n) :
       /\ n.children[i].type = "storage_class_specifier"
       /\ n.children[i].text = TextExtern

(***************************************************************************)
(* Name extraction helpers                                                 *)
(***************************************************************************)
extractJSName(n) ==
  firstTextOfTypes(n, {"identifier", "type_identifier", "property_identifier"})

extractPythonName(n) == firstTextOfTypes(n, {"identifier"})

extractRustName(n) ==
  LET typeNode == childForFieldName(n, "type")
      ident == IF typeNode.type = "type_identifier" THEN typeNode
               ELSE findChild(typeNode, "type_identifier")
  IN  IF n.type = "impl_item" /\ ~IsNull(typeNode)
      THEN ident.text
      ELSE firstTextOfTypes(n, {"identifier", "type_identifier"})

extractGoName(n) ==
  LET spec == findChild(n, "type_spec")
  IN  IF n.type = "type_declaration" /\ ~IsNull(spec)
      THEN childForFieldName(spec, "name").text
      ELSE firstTextOfTypes(n, {"identifier", "field_identifier"})

extractZigName(n) ==
  IF n.type = "test_declaration"
  THEN LET i == firstOfTypes(n, {"string", "identifier"})
       IN  IF i = 0 THEN NoText
           ELSE LET c == n.children[i]
                IN  IF c.type = "string"
                       /\ startsWith(c.text, TextQuote)
                       /\ endsWith(c.text, TextQuote)
                    THEN SubSeq(c.text, 2, Len(c.text) - 1)
                    ELSE c.text
  ELSE firstTextOfTypes(n, {"identifier"})

extractCppName(n) ==
  LET declarator == childForFieldName(n, "declarator")
      funcDecl == IF declarator.type = "function_declarator" THEN declarator
                  ELSE findChild(declarator, "function_declarator")
      innerDecl == childForFieldName(funcDecl, "declarator")
      initInner == childForFieldName(declarator, "declarator")
      nameNode == childForFieldName(n, "name")
      fallback == firstTextOfTypes(n, {"identifier", "type_identifier"})
  IN  IF /\ n.type = "function_definition"
         /\ ~IsNull(declarator) /\ ~IsNull(funcDecl)
         /\ innerDecl.type = "identifier"
      THEN innerDecl.text
      ELSE IF /\ n.type = "function_definition"
              /\ ~IsNull(declarator) /\ ~IsNull(funcDecl)
              /\ innerDecl.type = "qualified_identifier"
      THEN childForFieldName(innerDecl, "name").text
      ELSE IF /\ n.type \in {"struct_specifier", "class_specifier",
                             "enum_specifier"}
              /\ ~IsNull(nameNode)
      THEN nameNode.text
      ELSE IF /\ n.type \in {"struct_specifier", "class_specifier",
                             "enum_specifier"}
              /\ firstOfTypes(n, {"type_identifier"}) # 0
      THEN firstTextOfTypes(n, {"type_identifier"})
      ELSE IF n.type = "type_definition" /\ declarator.type = "type_identifier"
      THEN declarator.text
      ELSE IF n.type = "alias_declaration"
      THEN nameNode.text
      ELSE IF n.type = "declaration" /\ declarator.type = "identifier"
      THEN declarator.text
      ELSE IF /\ n.type = "declaration"
              /\ declarator.type = "init_declarator"
              /\ initInner.type = "identifier"
      THEN initInner.text
      ELSE fallback

extractName(n, lang) ==
  LET nameNode == childForFieldName(n, "name")
  IN  IF ~IsNull(nameNode) THEN nameNode.text
      ELSE CASE lang \in {"typescript", "javascript"} -> extractJSName(n)
             [] lang = "python" -> extractPythonName(n)
             [] lang = "rust" -> extractRustName(n)
             [] lang = "go" -> extractGoName(n)
             [] lang = "zig" -> extractZigName(n)
             [] lang = "cpp" -> extractCppName(n)
             [] OTHER -> NoText

extractConstName(n, lang) ==
  LET d == findChild(n, "variable_declarator")
      g == firstOfTypes(n, {"const_spec", "var_spec"})
  IN  IF lang \in {"typescript", "javascript"} /\ ~IsNull(d)
      THEN childForFieldName(d, "name").text
      ELSE IF lang = "rust" THEN extractName(n, lang)
      ELSE IF lang = "go" /\ g # 0
      THEN childForFieldName(n.children[g], "name").text
      ELSE IF lang = "zig" THEN extractZigName(n)
      ELSE IF lang = "cpp" THEN extractCppName(n)
      ELSE NoText

\* `if (name)`: null and the empty string are both falsy
truthyAlways(name) == TRUE

truthy(name) == name # NoText

(***************************************************************************)
(* Utility functions                                                       *)
(***************************************************************************)
NoArrow == [found |-> FALSE, name |-> NoText, line |-> 0, endLine |-> 0,
            bodyLines |-> 0]

extractArrowFunction(n) ==
  LET S == {i \in 1..childCount(n) :
              /\ n.children[i].type = "variable_declarator"
              /\ ~IsNull(childForFieldName(n.children[i], "name"))
              /\ childForFieldName(n.children[i], "value").type
                   = "arrow_function"}
  IN  IF n.type # "lexical_declaration" \/ S = {} THEN NoArrow
      ELSE LET d == n.children[SetMin(S)]
           IN  [found |-> TRUE,
                name |-> childForFieldName(d, "name").text,
                line |-> n.startRow + 1,
                endLine |-> n.endRow + 1,
                bodyLines |-> getBodyLineCount(childForFieldName(d, "value"))]

(***************************************************************************)
(* Definitions                                                             *)
(*   extern = FALSE stands for the absent `extern` key                     *)
(***************************************************************************)
Definition(name, line, endLine, type, exported, extern) ==
  [name |-> name, line |-> line, endLine |-> endLine, type |-> type,
   exported |-> exported, extern |-> extern]

\* the node's flag for every language, Go included
resolveExportedPerNode(name, lang, exported) == exported

resolveExported(name, lang, exported) ==
  IF lang = "go" THEN isGoExported(name) ELSE exported

createDefRow0(name, type, n, lang, exported, isExtern) ==
  Definition(name, n.startRow, n.endRow, type,
             resolveExported(name, lang, exported), isExtern)

createDef(name, type, n, lang, exported, isExtern) ==
  Definition(name, n.startRow + 1, n.endRow + 1, type,
             resolveExported(name, lang, exported), isExtern)

passesSizeFilterGeq(n) == getBodyLineCount(n) >= MIN_BODY_LINES

passesSizeFilter(n) == getBodyLineCount(n) > MIN_BODY_LINES

\* one iteration of the declarator loop: the Definitions child i contributes
jsDeclarator(child, exported, isExtern) ==
  LET nameNode == childForFieldName(child, "name")
      valueNode == childForFieldName(child, "value")
      isArrowFn == valueNode.type = "arrow_function"
  IN  IF child.type # "variable_declarator" \/ IsNull(nameNode) THEN << >>
      ELSE IF isArrowFn /\ getBodyLineCount(valueNode) <= MIN_BODY_LINES
      THEN << >>
      ELSE << Definition(nameNode.text, child.startRow + 1, child.endRow + 1,
                         IF isArrowFn THEN "function" ELSE "const",
                         exported, isExtern) >>

RECURSIVE jsDeclaratorLoop(_, _, _, _)
jsDeclaratorLoop(n, i, exported, isExtern) ==
  IF i > childCount(n) THEN << >>
  ELSE jsDeclarator(n.children[i], exported, isExtern)
         \o jsDeclaratorLoop(n, i + 1, exported, isExtern)

extractJSDeclarationsFirstOnly(n, lang, exported, isExtern) ==
  LET name == extractConstName(n, lang)
  IN  IF truthy(name)
      THEN << Definition(name, n.startRow + 1, n.endRow + 1, "const",
                         exported, isExtern) >>
      ELSE << >>

extractJSDeclarations(n, lang, exported, isExtern) ==
  IF n.type # "lexical_declaration"
  THEN LET name == extractConstName(n, lang)
       IN  IF truthy(name)
           THEN << Definition(name, n.startRow + 1, n.endRow + 1, "const",
                              exported, isExtern) >>
           ELSE << >>
  ELSE jsDeclaratorLoop(n, 1, exported, isExtern)

\* TS/JS branch of the constants category
extractLexicalUngated(n, lang, exported, isExtern) ==
  extractJSDeclarations(n, lang, exported, isExtern)

extractLexical(n, lang, exported, isExtern) ==
  IF ~exported
  THEN LET arrowFn == extractArrowFunction(n)
       IN  IF arrowFn.found /\ arrowFn.bodyLines > MIN_BODY_LINES
           THEN << Definition(arrowFn.name, arrowFn.line, arrowFn.endLine,
                              "function", FALSE, FALSE) >>
           ELSE << >>
  ELSE extractJSDeclarations(n, lang, exported, isExtern)

\* the node that is classified: the declaration inside an export wrapper
actualNodeNoUnwrap(node, lang) == node

actualNodeOf(node, lang) ==
  IF lang \in {"typescript", "javascript"} THEN unwrapExport(node) ELSE node

exportedOf(node, lang) ==
  CASE lang \in {"typescript", "javascript"} -> isExportStatement(node)
    [] lang = "zig" -> isZigPub(node)
    [] lang = "rust" -> isRustPub(node)
    [] OTHER -> FALSE

\* the node's own marker only, whatever encloses it
isExternOfOwnOnly(node, lang, forceExtern) ==
  CASE lang = "zig" -> isZigExtern(node)
    [] lang = "cpp" -> isCppExtern(node)
    [] OTHER -> FALSE

isExternOf(node, lang, forceExtern) ==
  CASE lang = "zig" -> forceExtern \/ isZigExtern(node)
    [] lang = "cpp" -> forceExtern \/ isCppExtern(node)
    [] OTHER -> forceExtern

\* a sized category (function, class, struct, trait)
sizedDefNoFilter(n, type, lang, exported, isExtern) ==
  LET name == extractName(n, lang)
  IN  IF truthy(name)
      THEN << createDef(name, type, n, lang, exported, isExtern) >>
      ELSE << >>

sizedDef(n, type, lang, exported, isExtern) ==
  LET name == extractName(n, lang)
  IN  IF truthy(name) /\ passesSizeFilter(n)
      THEN << createDef(name, type, n, lang, exported, isExtern) >>
      ELSE << >>

\* an unsized category put through the size filter of the sized ones
plainDefSized(n, type, lang, exported, isExtern) ==
  LET name == extractName(n, lang)
  IN  IF truthy(name) /\ passesSizeFilter(n)
      THEN << createDef(name, type, n, lang, exported, isExtern) >>
      ELSE << >>

\* an unsized category (interface, type alias, enum)
plainDef(n, type, lang, exported, isExtern) ==
  LET name == extractName(n, lang)
  IN  IF truthy(name)
      THEN << createDef(name, type, n, lang, exported, isExtern) >>
      ELSE << >>

extractDefinition(node, lang, forceExtern) ==
  LET exported == exportedOf(node, lang)
      actualNode == actualNodeOf(node, lang)
      isExtern == isExternOf(node, lang, forceExtern)
      t == actualNode.type
  IN  IF t \in FUNCTION_TYPES[lang]
      THEN sizedDef(actualNode, "function", lang, exported, isExtern)
      ELSE IF t \in CLASS_TYPES[lang]
      THEN sizedDef(actualNode, "class", lang, exported, isExtern)
      ELSE IF t \in STRUCT_TYPES[lang]
      THEN sizedDef(actualNode, "struct", lang, exported, isExtern)
      ELSE IF t \in TRAIT_TYPES[lang]
      THEN sizedDef(actualNode, "trait", lang, exported, isExtern)
      ELSE IF t \in INTERFACE_TYPES[lang]
      THEN plainDef(actualNode, "interface", lang, exported, isExtern)
      ELSE IF t \in TYPE_TYPES[lang]
      THEN plainDef(actualNode, "type", lang, exported, isExtern)
      ELSE IF t \in ENUM_TYPES[lang]
      THEN plainDef(actualNode, "enum", lang, exported, isExtern)
      ELSE IF t \in CONST_TYPES[lang]
      THEN IF lang = "zig"
           THEN IF ~exported \/ ~isZigConst(actualNode) THEN << >>
                ELSE LET name == extractZigName(actualNode)
                         zigType == getZigTypeDeclaration(actualNode)
                     IN  IF truthy(name)
                         THEN << createDef(name,
                                   IF zigType = "" THEN "const" ELSE zigType,
                                   actualNode, lang, exported, isExtern) >>
                         ELSE << >>
           ELSE IF lang \in {"typescript", "javascript"}
           THEN extractLexical(actualNode, lang, exported, isExtern)
           ELSE LET name == extractConstName(actualNode, lang)
                IN  IF truthy(name)
                    THEN << createDef(name, "const", actualNode, lang,
                                      exported, isExtern) >>
                    ELSE << >>
      ELSE << >>

(***************************************************************************)
(* Main extraction logic                                                   *)
(***************************************************************************)
\* `if (!seenNames.has(def.name)) { definitions.push(def); seenNames.add }`
\* acc = [definitions, seenNames]
RECURSIVE pushAll(_, _)
pushAll(acc, defs) ==
  IF defs = << >> THEN acc
  ELSE pushAll([definitions |-> Append(acc.definitions, Head(defs)),
                seenNames |-> acc.seenNames \cup {Head(defs).name}],
               Tail(defs))

RECURSIVE pushNew(_, _)
pushNew(acc, defs) ==
  IF defs = << >> THEN acc
  ELSE LET def == Head(defs)
       IN  pushNew(IF def.name \notin acc.seenNames
                   THEN [definitions |-> Append(acc.definitions, def),
                         seenNames |-> acc.seenNames \cup {def.name}]
                   ELSE acc,
                   Tail(defs))

SelectSeqNodes(seq, T) ==
  LET Keep(c) == c.type \notin T IN SelectSeq(seq, Keep)

\* the nodes handed to extractDefinition, in order, each with its forceExtern
RECURSIVE visitedFrom(_, _, _)
visitedFrom(children, i, lang) ==
  IF i > Len(children) THEN << >>
  ELSE LET node == children[i]
           inner == SelectSeqNodes(node.children, {"extern", "string_literal"})
           here == IF lang = "cpp" /\ node.type = "linkage_specification"
                   THEN [j \in 1..Len(inner) |->
                           [node |-> inner[j], forceExtern |-> TRUE]]
                   ELSE << [node |-> node, forceExtern |-> FALSE] >>
       IN  here \o visitedFrom(children, i + 1, lang)

RECURSIVE visitedDeepFrom(_, _, _)
visitedDeepFrom(children, i, lang) ==
  IF i > Len(children) THEN << >>
  ELSE << [node |-> children[i], forceExtern |-> FALSE] >>
         \o visitedDeepFrom(children[i].children, 1, lang)
         \o visitedDeepFrom(children, i + 1, lang)

visitedNodesDeep(root, lang) == visitedDeepFrom(root.children, 1, lang)

visitedNodes(root, lang) == visitedFrom(root.children, 1, lang)

RECURSIVE extractLoop(_, _, _, _)
extractLoop(visited, i, lang, acc) ==
  IF i > Len(visited) THEN acc
  ELSE extractLoop(visited, i + 1, lang,
         pushNew(acc, extractDefinition(visited[i].node, lang,
                                        visited[i].forceExtern)))

extractDefinitions(root, lang) ==
  extractLoop(visitedNodes(root, lang), 1, lang,
              [definitions |-> << >>, seenNames |-> {}]).definitions

(***************************************************************************)
(* Inputs: the syntax trees the parser hands to extractDefinitions.        *)
(* Every top-level statement is built at row 0 in the shape its grammar    *)
(* gives it, and a file lays its statements out one after the other.       *)
(***************************************************************************)
MaxChildren == 2
MaxDeclarators == 2

NameA == <<"a">>
NameB == <<"B">>
Names == {NameA, NameB}

SizedSpans == {MIN_BODY_LINES, MIN_BODY_LINES + 1}
PlainSpans == {1, MIN_BODY_LINES + 1}

Leaf(type, text, row) == Node(type, text, row, row, << >>, << >>)
Tok(type) == Leaf(type, NoText, 0)
K(f, n) == [f |-> f, n |-> n]
Mk(type, span, kids) ==
  Node(type, NoText, 0, span - 1,
       [i \in 1..Len(kids) |-> kids[i].n], [i \in 1..Len(kids) |-> kids[i].f])
Opt(b, kid) == IF b THEN << kid >> ELSE << >>
NameKid(kind, f, name) == Opt(name # NoText, K(f, Leaf(kind, name, 0)))

RECURSIVE shift(_, _)
shift(n, d) ==
  Node(n.type, n.text, n.startRow + d, n.endRow + d,
       [i \in 1..Len(n.children) |-> shift(n.children[i], d)], n.fields)

\* a block whose statements are `inner`, laid out from the row after `{`
Body(type, inner) ==
  Node(type, NoText, 0, getBodyLineCount(inner) + 1,
       << shift(inner, 1) >>, << "" >>)

Export(decl) ==
  Node("export_statement", NoText, decl.startRow, decl.endRow,
       << Tok("export"), decl >>, << "", "declaration" >>)

\* ---- TypeScript / JavaScript
JsDecl(type, name, span) ==
  Mk(type, span,
     NameKid(IF type = "function_declaration" THEN "identifier"
             ELSE "type_identifier", "name", name)
     \o << K("body", Node("statement_block", NoText, 0, span - 1, << >>, << >>)) >>)

JsValues ==
  {[type |-> "number", span |-> 1]}
    \cup {[type |-> t, span |-> sp] :
            t \in {"arrow_function", "function_expression"}, sp \in SizedSpans}

JsDeclarator(name, value, row) ==
  Node("variable_declarator", NoText, row, row + value.span - 1,
       << Leaf("identifier", name, row),
          Node(value.type, NoText, row, row + value.span - 1, << >>, << >>) >>,
       << "name", "value" >>)

\* declarator i starts on the row where declarator i-1 ends
RECURSIVE declRow(_, _)
declRow(ds, i) ==
  IF i = 1 THEN 0 ELSE declRow(ds, i - 1) + ds[i - 1].value.span - 1

JsLexical(ds) ==
  Node("lexical_declaration", NoText, 0,
       declRow(ds, Len(ds)) + ds[Len(ds)].value.span - 1,
       << Tok("const") >>
         \o [i \in 1..Len(ds) |->
               JsDeclarator(ds[i].name, ds[i].value, declRow(ds, i))],
       << "" >> \o [i \in 1..Len(ds) |-> ""])

JsBinding == [name : Names, value : JsValues]

WithExport(S) == S \cup {Export(n) : n \in S}

JsNested ==
  Mk("function_declaration", MIN_BODY_LINES + 3,
     << K("name", Leaf("identifier", NameB, 0)),
        K("body", Body("statement_block",
                       JsDecl("function_declaration", NameA,
                              MIN_BODY_LINES + 1))) >>)

JsCore(lang) ==
  WithExport({JsDecl(t, NameA, sp) :
                t \in {"function_declaration", "class_declaration"},
                sp \in SizedSpans})
  \cup {JsDecl("function_declaration", NameB, MIN_BODY_LINES + 1),
        JsDecl("function_declaration", NoText, MIN_BODY_LINES + 1),
        Mk("expression_statement", 1, << >>),
        Mk("export_statement", 1,
           << K("", Tok("export")), K("", Tok("export_clause")) >>),
        JsNested}
  \cup WithExport({JsLexical(<< [name |-> NameA, value |-> v] >>) :
                     v \in {w \in JsValues : w.type # "function_expression"}})
  \cup (IF lang = "typescript"
        THEN WithExport({JsDecl("interface_declaration", NameA, sp) :
                           sp \in PlainSpans})
             \cup WithExport({JsDecl("type_alias_declaration", NameB, 1)})
             \cup {JsDecl("enum_declaration", NameA, 1),
                   JsDecl("abstract_class_declaration", NameA,
                          MIN_BODY_LINES + 1),
                   Mk("expression_statement", MIN_BODY_LINES + 3,
                      << K("", Body("internal_module",
                                    Export(JsDecl("function_declaration",
                                      NameA, MIN_BODY_LINES + 1)))) >>)}
        ELSE {})

JsCompound ==
  WithExport({JsLexical(ds) :
                ds \in UNION {[1..k -> JsBinding] : k \in 1..MaxDeclarators}})

JsPrior ==
  WithExport({JsLexical(<< [name |-> NameA,
                            value |-> [type |-> "number", span |-> 1]] >>)})
  \cup {JsDecl("function_declaration", NameB, MIN_BODY_LINES + 1)}

\* ---- Python
PyDecl(type, name, span) ==
  Mk(type, span, NameKid("identifier", "name", name))

PyCore ==
  {PyDecl(t, NameA, sp) :
     t \in {"function_definition", "class_definition"}, sp \in SizedSpans}
  \cup {PyDecl("function_definition", NameB, MIN_BODY_LINES + 1),
        PyDecl("class_definition", NoText, MIN_BODY_LINES + 1),
        Mk("expression_statement", 1, << K("", Leaf("identifier", NameA, 0)) >>),
        Body("decorated_definition",
             PyDecl("function_definition", NameA, MIN_BODY_LINES + 1))}

\* ---- Rust
TextPubCrate == <<"p", "u", "b", "(", "c", "r", "a", "t", "e", ")">>
TextCrate == <<"c", "r", "a", "t", "e">>

RustDecl(type, vis, name, span) ==
  Mk(type, span,
     Opt(vis # NoText, K("", Leaf("visibility_modifier", vis, 0)))
     \o NameKid(IF type \in {"function_item", "const_item", "static_item"}
                THEN "identifier" ELSE "type_identifier", "name", name))

RustImpl(name, span) ==
  Mk("impl_item", span,
     << K("type", Leaf("type_identifier", name, 0)),
        K("body", Node("declaration_list", NoText, 0, span - 1, << >>, << >>)) >>)

RustCore ==
  {RustDecl(t, vis, NameA, sp) :
     t \in {"function_item", "struct_item", "trait_item"},
     vis \in {NoText, TextPub}, sp \in SizedSpans}
  \cup {RustDecl(t, vis, NameB, 1) :
          t \in {"enum_item", "type_item", "const_item", "static_item"},
          vis \in {NoText, TextPub}}
  \cup {RustDecl("function_item", TextPubCrate, NameB, MIN_BODY_LINES + 1),
        RustDecl("function_item", TextCrate, NameB, MIN_BODY_LINES + 1),
        RustDecl("const_item", NoText, NoText, 1),
        RustDecl("macro_definition", NoText, NameA, MIN_BODY_LINES + 1),
        RustImpl(NameA, MIN_BODY_LINES + 1),
        Mk("mod_item", MIN_BODY_LINES + 3,
           << K("name", Leaf("identifier", NameB, 0)),
              K("body", Body("declaration_list",
                             RustDecl("function_item", TextPub, NameA,
                                      MIN_BODY_LINES + 1))) >>)}

\* ---- Go
GoFunc(type, name, span) ==
  Mk(type, span,
     << K("", Tok("func")) >>
     \o NameKid(IF type = "method_declaration" THEN "field_identifier"
                ELSE "identifier", "name", name))

\* `type X struct {...}` has a type_spec, `type X = T` a type_alias
GoType(specType, name, span) ==
  Mk("type_declaration", span,
     << K("", Tok("type")),
        K("", Node(specType, NoText, 0, span - 1,
                   << Leaf("type_identifier", name, 0) >>, << "name" >>)) >>)

\* `const ( a = 1; b = 2 )`: one spec per row after the opening row
GoGroup(type, names) ==
  Node(type, NoText, 0, IF Len(names) = 1 THEN 0 ELSE Len(names) + 1,
       << Tok(IF type = "const_declaration" THEN "const" ELSE "var") >>
         \o [i \in 1..Len(names) |->
               LET row == IF Len(names) = 1 THEN 0 ELSE i
               IN  Node(IF type = "const_declaration" THEN "const_spec"
                        ELSE "var_spec", NoText, row, row,
                        << Leaf("identifier", names[i], row) >>, << "name" >>)],
       << "" >> \o [i \in 1..Len(names) |-> ""])

GoCore ==
  {GoFunc(t, name, sp) :
     t \in {"function_declaration", "method_declaration"},
     name \in Names, sp \in SizedSpans}
  \cup {GoType("type_spec", name, sp) : name \in Names, sp \in PlainSpans}
  \cup {GoGroup(t, << name >>) :
          t \in {"const_declaration", "var_declaration"}, name \in Names}
  \cup {GoType("type_alias", NameA, 1),
        GoFunc("function_declaration", NoText, MIN_BODY_LINES + 1),
        Mk("import_declaration", 1, << K("", Tok("import")) >>)}

GoCompound ==
  {GoGroup(t, names) :
     t \in {"const_declaration", "var_declaration"},
     names \in UNION {[1..k -> Names] : k \in 1..MaxDeclarators}}

GoPrior == {GoGroup("const_declaration", << NameA >>),
            GoFunc("function_declaration", NameB, MIN_BODY_LINES + 1)}

\* ---- Zig
ZigFn(pub, ext, name, span) ==
  Mk("function_declaration", span,
     Opt(pub, K("", Tok("pub"))) \o Opt(ext, K("", Tok("extern")))
     \o << K("", Tok("fn")) >> \o NameKid("identifier", "", name)
     \o << K("", Node("block", NoText, 0, span - 1, << >>, << >>)) >>)

ZigTest(name, span) ==
  Mk("test_declaration", span,
     << K("", Tok("test")),
        K("", Leaf("string", TextQuote \o name \o TextQuote, 0)),
        K("", Node("block", NoText, 0, span - 1, << >>, << >>)) >>)

ZigVar(pub, kw, name, valueType, span) ==
  Mk("variable_declaration", span,
     Opt(pub, K("", Tok("pub"))) \o << K("", Tok(kw)) >>
     \o NameKid("identifier", "", name)
     \o << K("", Node(valueType, NoText, 0, span - 1, << >>, << >>)) >>)

ZigValueTypes == {"integer", "struct_declaration", "union_declaration",
                  "enum_declaration"}

ZigCore ==
  {ZigFn(pub, ext, NameA, sp) :
     pub \in BOOLEAN, ext \in BOOLEAN, sp \in SizedSpans}
  \cup {ZigTest(NameA, sp) : sp \in SizedSpans}
  \cup {ZigVar(TRUE, "const", NameB, v, sp) :
          v \in ZigValueTypes, sp \in PlainSpans}
  \cup {ZigVar(FALSE, "const", NameB, v, 1) :
          v \in {"integer", "struct_declaration"}}
  \cup {ZigVar(TRUE, "var", NameB, v, 1) :
          v \in {"integer", "struct_declaration"}}
  \cup {ZigFn(TRUE, FALSE, NameB, MIN_BODY_LINES + 1),
        ZigVar(TRUE, "const", NoText, "integer", 1),
        Mk("comptime_declaration", MIN_BODY_LINES + 3,
           << K("", Body("block", ZigFn(TRUE, FALSE, NameA,
                                        MIN_BODY_LINES + 1))) >>)}

\* ---- C / C++
CppStorage(ext) ==
  Opt(ext, K("", Leaf("storage_class_specifier", TextExtern, 0)))

CppFunc(ext, name, span) ==
  Mk("function_definition", span,
     CppStorage(ext)
     \o << K("type", Tok("primitive_type")),
           K("declarator",
             Mk("function_declarator", 1,
                NameKid("identifier", "declarator", name)
                \o << K("parameters", Tok("parameter_list")) >>)),
           K("body", Node("compound_statement", NoText, 0, span - 1,
                          << >>, << >>)) >>)

\* `void Cls::name() {...}`: the declarator is a qualified_identifier
CppMethod(name, span) ==
  Mk("function_definition", span,
     << K("type", Tok("primitive_type")),
        K("declarator",
          Mk("function_declarator", 1,
             << K("declarator",
                  Mk("qualified_identifier", 1,
                     << K("scope", Leaf("namespace_identifier", NameB, 0)),
                        K("name", Leaf("identifier", name, 0)) >>)),
                K("parameters", Tok("parameter_list")) >>)),
        K("body", Node("compound_statement", NoText, 0, span - 1,
                       << >>, << >>)) >>)

CppSpecifier(type, name, span) ==
  Mk(type, span,
     NameKid("type_identifier", "name", name)
     \o << K("body", Node("field_declaration_list", NoText, 0, span - 1,
                          << >>, << >>)) >>)

CppTypedef(name) ==
  Mk("type_definition", 1,
     << K("type", Tok("primitive_type")),
        K("declarator", Leaf("type_identifier", name, 0)) >>)

CppAlias(name) ==
  Mk("alias_declaration", 1, NameKid("type_identifier", "name", name))

\* `int a = 1, b = 2;`: every declarator carries the field `declarator`
CppDeclaration(ext, names) ==
  Mk("declaration", 1,
     CppStorage(ext) \o << K("type", Tok("primitive_type")) >>
     \o [i \in 1..Len(names) |->
           K("declarator",
             Mk("init_declarator", 1,
                << K("declarator", Leaf("identifier", names[i], 0)),
                   K("value", Tok("number_literal")) >>))])

\* `extern "C" <declaration>`
CppLinkage(inner) ==
  Node("linkage_specification", NoText, 0, inner.endRow,
       << Tok("extern"), Tok("string_literal"), inner >>,
       << "", "value", "body" >>)

\* `extern "C" { <declaration> }`
CppLinkageBlock(inner) ==
  Node("linkage_specification", NoText, 0, inner.endRow + 2,
       << Tok("extern"), Tok("string_literal"),
          Body("declaration_list", inner) >>,
       << "", "value", "body" >>)

CppCore ==
  {CppFunc(ext, NameA, sp) : ext \in BOOLEAN, sp \in SizedSpans}
  \cup {CppSpecifier(t, NameA, sp) :
          t \in {"class_specifier", "struct_specifier"}, sp \in SizedSpans}
  \cup {CppDeclaration(ext, << NameA >>) : ext \in BOOLEAN}
  \cup {CppLinkage(inner) :
          inner \in {CppFunc(FALSE, NameA, MIN_BODY_LINES + 1),
                     CppFunc(FALSE, NameB, MIN_BODY_LINES),
                     CppDeclaration(FALSE, << NameB >>)}}
  \cup {CppSpecifier("enum_specifier", NameB, 1),
        CppSpecifier("struct_specifier", NoText, MIN_BODY_LINES + 1),
        CppTypedef(NameB), CppAlias(NameB),
        CppMethod(NameB, MIN_BODY_LINES + 1),
        CppLinkageBlock(CppFunc(FALSE, NameA, MIN_BODY_LINES + 1)),
        Mk("namespace_definition", MIN_BODY_LINES + 3,
           << K("name", Leaf("namespace_identifier", NameB, 0)),
              K("body", Body("declaration_list",
                             CppFunc(FALSE, NameA, MIN_BODY_LINES + 1))) >>),
        Mk("preproc_include", 1, << K("", Tok("#include")) >>)}

CppCompound ==
  {CppDeclaration(ext, names) :
     ext \in BOOLEAN,
     names \in UNION {[1..k -> Names] : k \in 1..MaxDeclarators}}

CppPrior == {CppDeclaration(FALSE, << NameA >>),
             CppFunc(FALSE, NameB, MIN_BODY_LINES + 1)}

\* ---- files
TopLevel(lang) ==
  CASE lang \in {"typescript", "javascript"} -> JsCore(lang)
    [] lang = "python" -> PyCore
    [] lang = "rust" -> RustCore
    [] lang = "go" -> GoCore
    [] lang = "zig" -> ZigCore
    [] lang = "cpp" -> CppCore

Compound(lang) ==
  CASE lang \in {"typescript", "javascript"} -> JsCompound
    [] lang = "go" -> GoCompound
    [] lang = "cpp" -> CppCompound
    [] OTHER -> {}

Prior(lang) ==
  CASE lang \in {"typescript", "javascript"} -> JsPrior
    [] lang = "go" -> GoPrior
    [] lang = "cpp" -> CppPrior
    [] OTHER -> {}

\* statement i starts on the row after statement i-1 ends
RECURSIVE layout(_, _)
layout(stmts, row) ==
  IF stmts = << >> THEN << >>
  ELSE << shift(Head(stmts), row) >>
         \o layout(Tail(stmts), row + getBodyLineCount(Head(stmts)))

Program(stmts) ==
  LET kids == layout(stmts, 0)
  IN  Node("program", NoText, 0,
           IF kids = << >> THEN 0 ELSE kids[Len(kids)].endRow,
           kids, [i \in 1..Len(kids) |-> ""])

Files(lang) ==
  UNION {[1..k -> TopLevel(lang)] : k \in 0..MaxChildren}
  \cup {<< c >> : c \in Compound(lang)}
  \cup {<< p, c >> : p \in Prior(lang), c \in Compound(lang)}

(***************************************************************************)
(* The state machine: a parsed file is handed to extractDefinitions        *)
(***************************************************************************)
ExtractInit ==
  /\ language \in Languages
  /\ rootNode \in {Program(f) : f \in Files(language)}
  /\ pc = "parsed"
  /\ definitions = << >>
  /\ fileDiff = NoFileDiff
  /\ NoScan
  /\ NoComponents

Extract ==
  /\ pc = "parsed"
  /\ definitions' = extractDefinitions(rootNode, language)
  /\ pc' = "extracted"
  /\ UNCHANGED <<language, rootNode, fileDiff, scanVars, componentVars>>

ExtractNext == Extract

SpecExtract == ExtractInit /\ [][ExtractNext]_vars

(***************************************************************************)
(* Vocabulary of the properties                                            *)
(***************************************************************************)
Done == pc = "extracted"

RangeOf(seq) == {seq[i] : i \in DOMAIN seq}

Span(d) == d.endLine - d.line + 1

IsJs == language \in {"typescript", "javascript"}

\* the nodes extractDefinitions looks at, and what each one yields
Visited == visitedNodes(rootNode, language)

DefsOf(v) == extractDefinition(v.node, language, v.forceExtern)

\* the declaration a top-level node stands for (inside its export wrapper)
Actual(node) == IF IsJs THEN unwrapExport(node) ELSE node

RECURSIVE CandidatesFrom(_)
CandidatesFrom(i) ==
  IF i > Len(Visited) THEN << >>
  ELSE DefsOf(Visited[i]) \o CandidatesFrom(i + 1)

\* every Definition some visited node yields, in visiting order
Candidates == CandidatesFrom(1)

RECURSIVE KeepFirst(_, _)
KeepFirst(c, k) ==
  IF k > Len(c) THEN << >>
  ELSE (IF \E j \in 1..(k - 1) : c[j].name = c[k].name THEN << >>
        ELSE << c[k] >>) \o KeepFirst(c, k + 1)

SizedKinds == {"function", "class", "struct", "union", "trait"}

CategoryKinds == <<"function", "class", "struct", "trait", "interface",
                   "type", "enum", "const">>

CategoryLists(lang) ==
  <<FUNCTION_TYPES[lang], CLASS_TYPES[lang], STRUCT_TYPES[lang],
    TRAIT_TYPES[lang], INTERFACE_TYPES[lang], TYPE_TYPES[lang],
    ENUM_TYPES[lang], CONST_TYPES[lang]>>

\* the first category, in precedence order, listing node kind t; 0 if none
FirstCategory(lang, t) ==
  LET S == {c \in 1..8 : t \in CategoryLists(lang)[c]}
  IN  IF S = {} THEN 0 ELSE SetMin(S)

CategoryOf(node) == FirstCategory(language, Actual(node).type)

\* C1: no two Definitions of the result share a name, and of the
\* Definitions the visited nodes yield (linkage_specification children and
\* the declarators of one statement included) exactly the first of each
\* name, in top-level child order, is kept.
C1_FirstNameWins ==
  Done =>
    /\ \A i, j \in 1..Len(definitions) :
         i # j => definitions[i].name # definitions[j].name
    /\ definitions = KeepFirst(Candidates, 1)

C1_Witness ==
  /\ Done
  /\ Len(Candidates) > Len(definitions)
  /\ Len(definitions) >= 1

\* C2: the size filter is strict.  A top-level function, class, struct or
\* trait node with a resolvable name passes it when it spans exactly
\* MIN_BODY_LINES + 1 lines (it yields its Definition, which is in the
\* result unless an earlier node took the name) and is rejected when it
\* spans exactly MIN_BODY_LINES lines (it yields nothing).
C2_SizeBoundary ==
  Done =>
    \A k \in 1..Len(Visited) :
      LET v == Visited[k]
          n == Actual(v.node)
      IN  (CategoryOf(v.node) \in 1..4 /\ extractName(n, language) # NoText)
          => /\ getBodyLineCount(n) = MIN_BODY_LINES + 1
                => /\ Len(DefsOf(v)) = 1
                   /\ DefsOf(v)[1].line = n.startRow + 1
                   /\ DefsOf(v)[1].endLine = n.startRow + MIN_BODY_LINES + 1
                   /\ \E d \in RangeOf(definitions) :
                        d.name = extractName(n, language)
                   /\ (\A j \in 1..(k - 1) :
                         \A d \in RangeOf(DefsOf(Visited[j])) :
                           d.name # extractName(n, language))
                      => DefsOf(v)[1] \in RangeOf(definitions)
             /\ getBodyLineCount(n) = MIN_BODY_LINES
                => /\ DefsOf(v) = << >>
                   /\ \A d \in RangeOf(definitions) :
                        ~(d.line = n.startRow + 1 /\ d.endLine = n.endRow + 1)

C2_Witness ==
  /\ Done
  /\ Len(Visited) = 2
  /\ \A k \in 1..2 : CategoryOf(Visited[k].node) \in 1..4
  /\ getBodyLineCount(Actual(Visited[1].node)) = MIN_BODY_LINES
  /\ getBodyLineCount(Actual(Visited[2].node)) = MIN_BODY_LINES + 1
  /\ Len(definitions) = 1
  /\ Span(definitions[1]) = MIN_BODY_LINES + 1

\* C3 (as claimed): in every language every Definition of kind function,
\* class, struct, union or trait spans more than MIN_BODY_LINES lines.
C3_Original ==
  Done =>
    \A d \in RangeOf(definitions) :
      d.type \in SizedKinds => Span(d) > MIN_BODY_LINES

\* C3 (amended): every Definition of kind function, class, struct, union or
\* trait spans more than MIN_BODY_LINES lines, except the struct and union
\* Definitions of a Zig `pub const X = struct/union {...}` declaration,
\* which the constants branch emits whatever their span.
C3_SizedKindsAreLarge ==
  Done =>
    /\ \A d \in RangeOf(definitions) :
         (d.type \in SizedKinds
            /\ ~(language = "zig" /\ d.type \in {"struct", "union"}))
         => Span(d) > MIN_BODY_LINES
    /\ \A k \in 1..Len(Visited) :
         LET n == Visited[k].node
         IN  (/\ language = "zig"
              /\ n.type = "variable_declaration"
              /\ isZigPub(n) /\ isZigConst(n)
              /\ extractZigName(n) # NoText
              /\ getZigTypeDeclaration(n) \in {"struct", "union"})
             => /\ Len(DefsOf(Visited[k])) = 1
                /\ DefsOf(Visited[k])[1].type = getZigTypeDeclaration(n)
                /\ Span(DefsOf(Visited[k])[1]) = getBodyLineCount(n)

C3_Witness ==
  /\ Done
  /\ language = "zig"
  /\ \E d \in RangeOf(definitions) :
       d.type = "struct" /\ Span(d) <= MIN_BODY_LINES
  /\ \E d \in RangeOf(definitions) :
       d.type = "function" /\ Span(d) > MIN_BODY_LINES

\* C4: every Definition of the result has 1 <= line <= endLine, whichever
\* branch produced it.
C4_LineRange ==
  Done =>
    \A d \in RangeOf(definitions) : 1 <= d.line /\ d.line <= d.endLine

C4_Witness ==
  /\ Done
  /\ IsJs
  /\ \E d \in RangeOf(definitions) :
       d.line = 1 /\ d.type = "function" /\ ~d.exported
  /\ \E d \in RangeOf(definitions) :
       d.line > 1 /\ d.line = d.endLine /\ d.type = "const"

\* C5: a top-level node is classified by the first category, in the order
\* function, class, struct, trait, interface, type alias, enum, constant,
\* whose kind list holds its unwrapped kind.  What it yields is decided by
\* that category alone: nothing when no category lists it, nothing when
\* the category rejects it (size filter, unresolved name) with no later
\* category tried, and otherwise one Definition of that category's kind
\* (the constants category yields const Definitions, or the function,
\* struct, union and enum Definitions it reclassifies a binding to).
C5_FirstCategoryDecides ==
  Done =>
    \A k \in 1..Len(Visited) :
      LET v == Visited[k]
          n == Actual(v.node)
          c == CategoryOf(v.node)
          named == extractName(n, language) # NoText
          large == getBodyLineCount(n) > MIN_BODY_LINES
      IN  /\ Cardinality({x \in 1..8 : n.type \in CategoryLists(language)[x]})
               <= 1
          /\ c = 0 => DefsOf(v) = << >>
          /\ c \in 1..7
             => IF named /\ (c \in 1..4 => large)
                THEN /\ Len(DefsOf(v)) = 1
                     /\ DefsOf(v)[1].type = CategoryKinds[c]
                     /\ DefsOf(v)[1].name = extractName(n, language)
                ELSE DefsOf(v) = << >>
          /\ c = 8
             => \A d \in RangeOf(DefsOf(v)) :
                  d.type \in {"const", "function", "struct", "union", "enum"}

C5_Witness ==
  /\ Done
  /\ Len(Visited) = 2
  /\ CategoryOf(Visited[1].node) = 1
  /\ getBodyLineCount(Actual(Visited[1].node)) = MIN_BODY_LINES
  /\ isExportStatement(Visited[2].node)
  /\ CategoryOf(Visited[2].node) = 2
  /\ Len(definitions) = 1
  /\ definitions[1].type = "class"

\* the declarators of a TS/JS statement
Declarators(n) ==
  SelectSeqNodes(n.children,
                 {c.type : c \in RangeOf(n.children)} \ {"variable_declarator"})

BindingName(d) == childForFieldName(d, "name").text
BindingValue(d) == childForFieldName(d, "value")

IsConstStatement(node) == CategoryOf(node) = 8

\* a top-level constant statement that is not exported (TS/JS, Zig)
NotExported(node) ==
  IF IsJs THEN ~isExportStatement(node) ELSE ~isZigPub(node)

PlainConst(node) ==
  /\ Actual(node).type = "lexical_declaration"
  /\ Len(Declarators(Actual(node))) = 1
  /\ BindingValue(Declarators(Actual(node))[1]).type = "number"

\* C6: export gating of constants in TypeScript, JavaScript and Zig.  A
\* Definition of kind const is always exported; a top-level constant
\* statement that is not exported yields no const Definition, and yields
\* nothing at all when none of its bindings has an arrow function as value
\* (a Zig `pub var` yields nothing either);
\* and of two sibling const bindings of which only the second is exported
\* exactly one Definition is emitted, the exported one.
C6_ExportGate ==
  (Done /\ language \in {"typescript", "javascript", "zig"}) =>
    /\ \A d \in RangeOf(definitions) : d.type = "const" => d.exported
    /\ \A k \in 1..Len(Visited) :
         LET v == Visited[k]
         IN  (IsConstStatement(v.node) /\ NotExported(v.node))
             => /\ \A d \in RangeOf(DefsOf(v)) : d.type # "const"
                /\ (\A b \in RangeOf(Declarators(Actual(v.node))) :
                      BindingValue(b).type # "arrow_function")
                   => DefsOf(v) = << >>
    /\ \A k \in 1..Len(Visited) :
         (language = "zig" /\ IsConstStatement(Visited[k].node)
            /\ ~isZigConst(Visited[k].node))
         => DefsOf(Visited[k]) = << >>
    /\ (/\ IsJs
        /\ childCount(rootNode) = 2
        /\ PlainConst(rootNode.children[1])
        /\ PlainConst(rootNode.children[2])
        /\ ~isExportStatement(rootNode.children[1])
        /\ isExportStatement(rootNode.children[2]))
       => LET b == Declarators(Actual(rootNode.children[2]))[1]
          IN  definitions =
                << Definition(BindingName(b), b.startRow + 1, b.endRow + 1,
                              "const", TRUE, FALSE) >>

C6_Witness ==
  /\ Done
  /\ IsJs
  /\ childCount(rootNode) = 2
  /\ PlainConst(rootNode.children[1])
  /\ PlainConst(rootNode.children[2])
  /\ ~isExportStatement(rootNode.children[1])
  /\ isExportStatement(rootNode.children[2])
  /\ BindingName(Declarators(Actual(rootNode.children[1]))[1]) = NameA
  /\ Len(definitions) = 1
  /\ definitions[1].name = NameB
  /\ definitions[1].exported

\* the Definitions yielded before declarator i of top-level node k
EarlierNames(k, i) ==
  {d.name : d \in UNION {RangeOf(DefsOf(Visited[j])) : j \in 1..(k - 1)}}
  \cup {BindingName(Declarators(Actual(Visited[k].node))[j]) :
          j \in 1..(i - 1)}

\* C7: in TypeScript/JavaScript every top-level binding whose value is an
\* anonymous (arrow) function of more than MIN_BODY_LINES lines is emitted
\* as a Definition of kind function under the binding's name, exported or
\* not and whatever its position among the declarators of its statement
\* (unless an earlier Definition has that name); a binding whose function
\* value spans MIN_BODY_LINES lines or fewer is not emitted as a function.
C7_LargeArrowFunctionsEmitted ==
  (Done /\ IsJs) =>
    \A k \in 1..Len(Visited) :
      LET n == Actual(Visited[k].node)
          ds == Declarators(n)
      IN  n.type = "lexical_declaration" =>
            \A i \in 1..Len(ds) :
              BindingValue(ds[i]).type = "arrow_function" =>
                IF getBodyLineCount(BindingValue(ds[i])) > MIN_BODY_LINES
                THEN \/ BindingName(ds[i]) \in EarlierNames(k, i)
                     \/ \E d \in RangeOf(definitions) :
                          d.name = BindingName(ds[i]) /\ d.type = "function"
                ELSE \A d \in RangeOf(DefsOf(Visited[k])) :
                       ~(d.name = BindingName(ds[i]) /\ d.type = "function"
                         /\ BindingName(ds[i]) \notin EarlierNames(k, i))

\* the names a constant statement introduces, in declaration order
RECURSIVE NamesOf(_)
NamesOf(seq) ==
  IF seq = << >> THEN << >>
  ELSE << childForFieldName(Head(seq), IF language = "cpp" THEN "declarator"
                                       ELSE "name").text >>
         \o NamesOf(Tail(seq))

IntroducedNames(n) ==
  CASE IsJs -> NamesOf(Declarators(n))
    [] language = "go" ->
         NamesOf(SelectSeqNodes(n.children,
                   {c.type : c \in RangeOf(n.children)}
                     \ {"const_spec", "var_spec"}))
    [] language = "cpp" ->
         NamesOf(SelectSeqNodes(n.children,
                   {c.type : c \in RangeOf(n.children)} \ {"init_declarator"}))
    [] language = "zig" ->
         IF extractZigName(n) = NoText THEN << >> ELSE << extractZigName(n) >>
    [] OTHER ->
         IF extractName(n, language) = NoText THEN << >>
         ELSE << extractName(n, language) >>

PassesExportGate(node) ==
  CASE IsJs -> isExportStatement(node)
    [] language = "zig" -> isZigPub(node) /\ isZigConst(node)
    [] OTHER -> TRUE

Distinct(seq) == Cardinality(RangeOf(seq)) = Len(seq)

DefNames(defs) == [i \in 1..Len(defs) |-> defs[i].name]

\* C8 (as claimed): in every language a top-level constant statement that
\* passes the export gate and introduces k distinct names yields k
\* Definitions, one per name, in declaration order.
C8_Original ==
  Done =>
    \A k \in 1..Len(Visited) :
      LET v == Visited[k]
          names == IntroducedNames(Actual(v.node))
      IN  (IsConstStatement(v.node) /\ PassesExportGate(v.node)
             /\ Distinct(names))
          => DefNames(DefsOf(v)) = names

\* the bindings of an exported TS/JS statement that are not small arrow
\* functions
RECURSIVE KeptBindings(_)
KeptBindings(ds) ==
  IF ds = << >> THEN << >>
  ELSE (IF /\ BindingValue(Head(ds)).type = "arrow_function"
           /\ getBodyLineCount(BindingValue(Head(ds))) <= MIN_BODY_LINES
        THEN << >> ELSE << Head(ds) >>) \o KeptBindings(Tail(ds))

\* C8 (amended): an exported TypeScript/JavaScript lexical declaration yields
\* one Definition per declarator, in declaration order, with the
\* declarator's own line range, except that a declarator whose value is an
\* arrow function of MIN_BODY_LINES lines or fewer yields none; in Rust, Go,
\* Zig and C/C++ a constant statement yields at most one Definition, named
\* after the first name it introduces and spanning the whole statement.
C8_CompoundDeclarations ==
  Done =>
    \A k \in 1..Len(Visited) :
      LET v == Visited[k]
          n == Actual(v.node)
          kept == KeptBindings(Declarators(n))
          names == IntroducedNames(n)
      IN  (IsConstStatement(v.node) /\ PassesExportGate(v.node))
          => IF IsJs
             THEN /\ Len(DefsOf(v)) = Len(kept)
                  /\ \A i \in 1..Len(kept) :
                       /\ DefsOf(v)[i].name = BindingName(kept[i])
                       /\ DefsOf(v)[i].line = kept[i].startRow + 1
                       /\ DefsOf(v)[i].endLine = kept[i].endRow + 1
             ELSE IF names = << >> \/ names[1] = NoText
             THEN DefsOf(v) = << >>
             ELSE /\ Len(DefsOf(v)) = 1
                  /\ DefsOf(v)[1].name = names[1]
                  /\ DefsOf(v)[1].line = n.startRow + 1
                  /\ DefsOf(v)[1].endLine = n.endRow + 1

C8_Witness ==
  /\ Done
  /\ language = "typescript"
  /\ childCount(rootNode) = 1
  /\ isExportStatement(rootNode.children[1])
  /\ Len(Declarators(Actual(rootNode.children[1]))) = 2
  /\ DefNames(definitions) = << NameA, NameB >>
  /\ definitions[1].type = "const"
  /\ definitions[2].type = "function"

\* C9 (as claimed): every Definition of the result is yielded by an
\* immediate child of the root; nothing nested inside another node is
\* emitted.
C9_Original ==
  Done =>
    \A d \in RangeOf(definitions) :
      \E i \in 1..childCount(rootNode) :
        d \in RangeOf(extractDefinition(rootNode.children[i], language, FALSE))

\* C9 (amended): every Definition of the result is yielded by an immediate
\* child of the root or, in C/C++, by an immediate child of a top-level
\* linkage_specification (extern "C"); a definition nested any deeper, or
\* inside any other node, is never emitted.
C9_TopLevelOnly ==
  Done =>
    \A d \in RangeOf(definitions) :
      \E i \in 1..childCount(rootNode) :
        LET n == rootNode.children[i]
        IN  IF language = "cpp" /\ n.type = "linkage_specification"
            THEN \E j \in 1..childCount(n) :
                   d \in RangeOf(extractDefinition(n.children[j], language,
                                                   TRUE))
            ELSE d \in RangeOf(extractDefinition(n, language, FALSE))

C9_Witness ==
  /\ Done
  /\ language = "cpp"
  /\ childCount(rootNode) = 2
  /\ rootNode.children[1].type = "linkage_specification"
  /\ rootNode.children[2].type = "namespace_definition"
  /\ Len(definitions) = 1
  /\ definitions[1].type = "function"
  /\ definitions[1].extern

\* the root without its child i (the rows of the other children unchanged)
RootWithout(i) ==
  [rootNode EXCEPT
     !.children = SubSeq(rootNode.children, 1, i - 1)
                    \o SubSeq(rootNode.children, i + 1, childCount(rootNode)),
     !.fields = SubSeq(rootNode.fields, 1, i - 1)
                  \o SubSeq(rootNode.fields, i + 1, childCount(rootNode))]

NoCategory(node) ==
  /\ CategoryOf(node) = 0
  /\ ~(language = "cpp" /\ node.type = "linkage_specification")

NameUnresolved(node) ==
  \/ CategoryOf(node) \in 1..7 /\ extractName(Actual(node), language) = NoText
  \/ /\ CategoryOf(node) = 8
     /\ ~IsJs
     /\ (IF language = "zig" THEN extractZigName(node)
         ELSE extractConstName(node, language)) = NoText

\* C10: a top-level node whose kind is in no category list, and a node
\* whose name cannot be resolved, each yield no Definition, and the result
\* is the one the same file gives without that node: the Definitions of all
\* other top-level nodes are unchanged.  (extractDefinitions has no error
\* outcome: its result is always a sequence of Definitions.)
C10_SilentDrop ==
  Done =>
    \A i \in 1..childCount(rootNode) :
      (NoCategory(rootNode.children[i]) \/ NameUnresolved(rootNode.children[i]))
      => /\ extractDefinition(rootNode.children[i], language, FALSE) = << >>
         /\ \A d \in RangeOf(definitions) :
              ~(d.line = rootNode.children[i].startRow + 1
                /\ d.endLine = rootNode.children[i].endRow + 1)
         /\ definitions = extractDefinitions(RootWithout(i), language)

C10_Witness ==
  /\ Done
  /\ childCount(rootNode) = 2
  /\ NameUnresolved(rootNode.children[1])
  /\ ~NoCategory(rootNode.children[2])
  /\ ~NameUnresolved(rootNode.children[2])
  /\ Len(definitions) = 1

C10_WitnessNoCategory ==
  /\ Done
  /\ childCount(rootNode) = 2
  /\ NoCategory(rootNode.children[1])
  /\ Len(definitions) = 1

\* a top-level Rust impl block spanning more than MIN_BODY_LINES lines
LargeImpl(node) ==
  /\ language = "rust"
  /\ node.type = "impl_item"
  /\ getBodyLineCount(node) > MIN_BODY_LINES

\* C11: a top-level Rust impl block spanning more than 5 lines yields a
\* Definition over the block's line range whose name is the type being
\* implemented (the block's `type` field), unless an earlier top-level node
\* already took that name.
C11_ImplBlockEmitted ==
  Done =>
    \A i \in 1..childCount(rootNode) :
      LET n == rootNode.children[i]
      IN  LargeImpl(n) =>
            /\ extractRustName(n) = childForFieldName(n, "type").text
            /\ \E d \in RangeOf(definitions) :
                 /\ d.name = extractRustName(n)
                 /\ \/ /\ d.line = n.startRow + 1
                       /\ d.endLine = n.endRow + 1
                    \/ d.line < n.startRow + 1

\* the Definition of kind `type` spanning node n under the name `name`
Spans(d, n, name, type) ==
  /\ d.name = name
  /\ d.type = type
  /\ d.line = n.startRow + 1
  /\ d.endLine = n.endRow + 1

\* C12: no size filter for interfaces, type aliases, enums and constants.
\* A visited node of the interface, type-alias or enum category whose name
\* resolves yields exactly one Definition of that kind over the node's
\* lines, whatever the node's span; a constant statement that passes the
\* export gate yields a Definition for its resolved name whatever its span
\* (in TypeScript/JavaScript one `const` Definition per binding whose value
\* is not an arrow function; in Zig the kind is struct, union or enum when
\* the value is such a declaration).
C12_NoSizeFilter ==
  Done =>
    \A k \in 1..Len(Visited) :
      LET v == Visited[k]
          n == Actual(v.node)
          c == CategoryOf(v.node)
      IN  /\ (c \in 5..7 /\ extractName(n, language) # NoText)
             => /\ Len(DefsOf(v)) = 1
                /\ Spans(DefsOf(v)[1], n, extractName(n, language),
                         CategoryKinds[c])
          /\ (c = 8 /\ PassesExportGate(v.node))
             => CASE IsJs ->
                       \A b \in RangeOf(Declarators(n)) :
                         (BindingName(b) # NoText
                            /\ BindingValue(b).type # "arrow_function")
                         => \E d \in RangeOf(DefsOf(v)) :
                              Spans(d, b, BindingName(b), "const")
                  [] language = "zig" ->
                       extractZigName(n) # NoText
                       => /\ Len(DefsOf(v)) = 1
                          /\ Spans(DefsOf(v)[1], n, extractZigName(n),
                                   IF getZigTypeDeclaration(n) = ""
                                   THEN "const"
                                   ELSE getZigTypeDeclaration(n))
                  [] OTHER ->
                       extractConstName(n, language) # NoText
                       => /\ Len(DefsOf(v)) = 1
                          /\ Spans(DefsOf(v)[1], n,
                                   extractConstName(n, language), "const")

\* a one-line enum, interface or type alias followed by a one-line constant,
\* both emitted
C12_Witness ==
  /\ Done
  /\ childCount(rootNode) = 2
  /\ CategoryOf(rootNode.children[1]) \in 5..7
  /\ CategoryOf(rootNode.children[2]) = 8
  /\ getBodyLineCount(rootNode.children[1]) = 1
  /\ getBodyLineCount(rootNode.children[2]) = 1
  /\ Len(definitions) = 2
  /\ Span(definitions[1]) = 1
  /\ Span(definitions[2]) = 1
  /\ definitions[2].type = "const"

\* the node has a visibility modifier whose text starts with `pub`
HasPubModifier(n) ==
  \E i \in 1..childCount(n) :
    /\ n.children[i].type = "visibility_modifier"
    /\ Len(n.children[i].text) >= 3
    /\ SubSeq(n.children[i].text, 1, 3) = <<"p", "u", "b">>

C13_WitnessRust ==
  /\ Done
  /\ language = "rust"
  /\ Len(definitions) = 2
  /\ definitions[1].exported
  /\ ~definitions[2].exported
  /\ \E i \in 1..childCount(rootNode) :
       \E j \in 1..childCount(rootNode.children[i]) :
         rootNode.children[i].children[j].text = TextPubCrate

\* the node carries its own extern marker: an `extern` storage class
\* specifier in C/C++, an `extern` token in Zig
OwnExternMarker(n) ==
  IF language = "cpp"
  THEN \E i \in 1..childCount(n) :
         /\ n.children[i].type = "storage_class_specifier"
         /\ n.children[i].text = <<"e", "x", "t", "e", "r", "n">>
  ELSE \E i \in 1..childCount(n) : n.children[i].type = "extern"

\* Definition d lies within the lines of node n
Within(d, n) == n.startRow + 1 <= d.line /\ d.endLine <= n.endRow + 1

\* C14: a Definition that lies within a top-level C/C++
\* linkage_specification (extern "C") carries extern; a C/C++ or Zig
\* Definition of any other top-level node carries extern exactly when that
\* node has its own extern marker; a Definition of a TypeScript, JavaScript,
\* Python, Rust or Go file never carries extern.
C14_ExternMarking ==
  Done =>
    /\ language \notin {"cpp", "zig"} =>
         \A d \in RangeOf(definitions) : ~d.extern
    /\ language \in {"cpp", "zig"} =>
         \A d \in RangeOf(definitions) :
           \A i \in 1..childCount(rootNode) :
             LET n == rootNode.children[i]
             IN  Within(d, n) =>
                   IF language = "cpp" /\ n.type = "linkage_specification"
                   THEN d.extern
                   ELSE d.extern <=> OwnExternMarker(n)

\* a C/C++ file: a declaration under extern "C" followed by a function
\* without any extern marker
C14_Witness ==
  /\ Done
  /\ language = "cpp"
  /\ childCount(rootNode) = 2
  /\ rootNode.children[1].type = "linkage_specification"
  /\ rootNode.children[2].type = "function_definition"
  /\ ~OwnExternMarker(rootNode.children[2])
  /\ Len(definitions) = 2
  /\ definitions[1].extern
  /\ ~definitions[2].extern

\* a Zig file with an extern function and a plain one
C14_WitnessZig ==
  /\ Done
  /\ language = "zig"
  /\ Len(definitions) = 2
  /\ definitions[1].extern
  /\ OwnExternMarker(rootNode.children[1])
  /\ ~definitions[2].extern

(***************************************************************************)
(* Diff attribution (extract/git-status: applyDiffToDefinitions).          *)
(* A hunk covers the new-file lines newStart .. newStart + newCount - 1.   *)
(* The added lines of a hunk are attributed to a Definition by clipping    *)
(* the hunk to the Definition's lines.  The old-side lines of a hunk have  *)
(* no position in the new file: a hunk that lies inside the Definition     *)
(* contributes all of them, and what a hunk that straddles a boundary of   *)
(* the Definition contributes is left open, so any number from none to     *)
(* all of them is a possible outcome.                                      *)
(***************************************************************************)
DiffHunk(oldStart, oldCount, newStart, newCount) ==
  [oldStart |-> oldStart, oldCount |-> oldCount,
   newStart |-> newStart, newCount |-> newCount]

FileDiff(path, hunks) == [defined |-> TRUE, path |-> path, hunks |-> hunks]

DefinitionDiff(status, added, deleted) ==
  [status |-> status, added |-> added, deleted |-> deleted]

Min(a, b) == IF a <= b THEN a ELSE b
Max(a, b) == IF a >= b THEN a ELSE b

\* [newStart, newStart + newCount) meets [line, endLine]
hunkIntersects(h, d) ==
  /\ h.newCount > 0
  /\ h.newStart <= d.endLine
  /\ h.newStart + h.newCount > d.line

\* the whole hunk, not clipped to the Definition
hunkOverlapWhole(h, d) == h.newCount

\* the lines of the hunk that are lines of the Definition
hunkOverlap(h, d) ==
  Min(h.newStart + h.newCount - 1, d.endLine) - Max(h.newStart, d.line) + 1

hunkInside(h, d) ==
  h.newStart >= d.line /\ h.newStart + h.newCount - 1 <= d.endLine

\* one sweep over the hunks of the file, in order
RECURSIVE addedLines(_, _)
addedLines(hunks, d) ==
  IF hunks = << >> THEN 0
  ELSE (IF hunkIntersects(Head(hunks), d) THEN hunkOverlap(Head(hunks), d)
        ELSE 0)
       + addedLines(Tail(hunks), d)

\* the old-side lines of the intersecting hunks: of those inside the
\* Definition (all = FALSE), of every one (all = TRUE)
RECURSIVE deletedLines(_, _, _)
deletedLines(hunks, d, all) ==
  IF hunks = << >> THEN 0
  ELSE (IF hunkIntersects(Head(hunks), d) /\ (all \/ hunkInside(Head(hunks), d))
        THEN Head(hunks).oldCount
        ELSE 0)
       + deletedLines(Tail(hunks), d, all)

\* status decided by the old-side lines alone, whatever part of the
\* Definition the hunks cover
definitionDiffsUncovered(d, hunks) ==
  IF \A i \in 1..Len(hunks) : ~hunkIntersects(hunks[i], d) THEN {}
  ELSE {DefinitionDiff(IF deleted = 0 THEN "added" ELSE "updated",
                       addedLines(hunks, d), deleted) :
          deleted \in deletedLines(hunks, d, FALSE) ..
                      deletedLines(hunks, d, TRUE)}

\* the DefinitionDiffs a Definition may get: none when no hunk intersects it
definitionDiffs(d, hunks) ==
  IF \A i \in 1..Len(hunks) : ~hunkIntersects(hunks[i], d) THEN {}
  ELSE LET added == addedLines(hunks, d)
       IN  {DefinitionDiff(IF added = d.endLine - d.line + 1 /\ deleted = 0
                           THEN "added" ELSE "updated",
                           added, deleted) :
              deleted \in deletedLines(hunks, d, FALSE) ..
                          deletedLines(hunks, d, TRUE)}

annotate(d, hunks) ==
  IF definitionDiffs(d, hunks) = {} THEN {d}
  ELSE {[diff |-> dd] @@ d : dd \in definitionDiffs(d, hunks)}

\* the possible results: the same Definitions in the same order, each with
\* its DefinitionDiff where it has one
RECURSIVE applyDiffToDefinitions(_, _)
applyDiffToDefinitions(defs, fd) ==
  IF defs = << >> THEN {<< >>}
  ELSE {<< x >> \o rest :
          x \in annotate(Head(defs), fd.hunks),
          rest \in applyDiffToDefinitions(Tail(defs), fd)}

\* the result of applyDiffToDefinitions thrown away
withDiffDiscarded(defs, fd) == {defs}

\* processFile: `if (fileDiff) definitions = applyDiffToDefinitions(...)`
withDiff(defs, fd) ==
  IF fd.defined THEN applyDiffToDefinitions(defs, fd) ELSE {defs}

(***************************************************************************)
(* Inputs of the attribution: files of one or two functions and the hunks  *)
(* of a diff of the file, in file order and non-overlapping                *)
(***************************************************************************)
MaxHunks == 2

HunkStarts == {1, 4, 7, 13, 16}
HunkNewCounts == {0, 2, 9}
HunkOldCounts == {0, 1, 3}

\* a hunk before its old-side start is known
RawHunks ==
  {[newStart |-> s, newCount |-> n, oldCount |-> o] :
     s \in HunkStarts, n \in HunkNewCounts, o \in HunkOldCounts}
    \ {[newStart |-> s, newCount |-> 0, oldCount |-> 0] : s \in HunkStarts}

\* the first and last new-file line a hunk touches (a hunk without new-side
\* lines sits after line newStart)
hunkFirst(h) == IF h.newCount > 0 THEN h.newStart ELSE h.newStart + 1
hunkLast(h) == IF h.newCount > 0 THEN h.newStart + h.newCount - 1 ELSE h.newStart

InFileOrder(hs) ==
  \A i \in 1..Len(hs) - 1 : hunkFirst(hs[i + 1]) > hunkLast(hs[i])

\* the old-side start of each hunk: its new-side position less the lines
\* the earlier hunks added net
RECURSIVE layoutHunks(_, _)
layoutHunks(hs, net) ==
  IF hs = << >> THEN << >>
  ELSE LET h == Head(hs)
           old == hunkFirst(h) - net
       IN  << DiffHunk(IF h.oldCount > 0 THEN old ELSE old - 1, h.oldCount,
                       h.newStart, h.newCount) >>
           \o layoutHunks(Tail(hs), net + h.newCount - h.oldCount)

HunkLists ==
  {layoutHunks(hs, 0) :
     hs \in {x \in UNION {[1..k -> RawHunks] : k \in 0..MaxHunks} :
               InFileOrder(x)}}

DiffLanguages == {"typescript", "go"}

DiffFunction(lang, name, span) ==
  IF lang = "go" THEN GoFunc("function_declaration", name, span)
  ELSE JsDecl("function_declaration", name, span)

\* a 9-line function at lines 1-9; a 10-line function at lines 5-14 after a
\* small one; two 6-line functions at lines 1-6 and 7-12
DiffPrograms(lang) ==
  {Program(<< DiffFunction(lang, NameA, 9) >>),
   Program(<< DiffFunction(lang, NameB, 4), DiffFunction(lang, NameA, 10) >>),
   Program(<< DiffFunction(lang, NameA, 6), DiffFunction(lang, NameB, 6) >>)}

DiffPath(lang) ==
  IF lang = "go" THEN <<"a", ".", "g", "o">> ELSE <<"a", ".", "t", "s">>

(***************************************************************************)
(* The state machine: the Definitions of a parsed file are annotated with  *)
(* the file's diff (processFile from the parse on)                         *)
(***************************************************************************)
AttributeInit ==
  /\ language \in DiffLanguages
  /\ rootNode \in DiffPrograms(language)
  /\ fileDiff \in {NoFileDiff}
                    \cup {FileDiff(DiffPath(language), hs) : hs \in HunkLists}
  /\ pc = "parsed"
  /\ definitions = << >>
  /\ NoScan
  /\ NoComponents

Attribute ==
  /\ pc = "parsed"
  /\ definitions' \in withDiff(extractDefinitions(rootNode, language), fileDiff)
  /\ pc' = "attributed"
  /\ UNCHANGED <<language, rootNode, fileDiff, scanVars, componentVars>>

AttributeNext == Attribute

SpecAttribute == AttributeInit /\ [][AttributeNext]_vars

(***************************************************************************)
(* Properties of the attribution                                           *)
(***************************************************************************)
Attributed == pc = "attributed"

HasDiff(d) == "diff" \in DOMAIN d

\* the new-file lines of a hunk, and those of them that are lines of d
NewLines(h) == h.newStart .. (h.newStart + h.newCount - 1)
LinesOf(d) == d.line .. d.endLine

Hunks == RangeOf(fileDiff.hunks)

\* C16: a Definition carries a DefinitionDiff if and only if some hunk of
\* the file's diff has a new-side line within the Definition's lines
\* [line, endLine]; a Definition that lies before or after every hunk, or
\* whose file has no hunks or no FileDiff, carries none.
C16_DiffIffIntersects ==
  Attributed =>
    /\ Len(definitions) = Len(extractDefinitions(rootNode, language))
    /\ \A d \in RangeOf(definitions) :
         HasDiff(d) <=> \E h \in Hunks : NewLines(h) \cap LinesOf(d) # {}

\* two Definitions, the first before every hunk and unannotated, the second
\* annotated
C16_Witness ==
  /\ Attributed
  /\ Len(definitions) = 2
  /\ Hunks # {}
  /\ \A h \in Hunks : h.newStart > definitions[1].endLine
  /\ ~HasDiff(definitions[1])
  /\ HasDiff(definitions[2])

\* the 9-line function at lines 1-9 of a file whose diff has no hunks
C16_WitnessNoHunks ==
  /\ Attributed
  /\ fileDiff.defined
  /\ Hunks = {}
  /\ Len(definitions) = 1
  /\ definitions[1].line = 1
  /\ definitions[1].endLine = 9
  /\ ~HasDiff(definitions[1])

\* every line of the Definition is a new-side line of some hunk
Covered(d) == \A l \in LinesOf(d) : \E h \in Hunks : l \in NewLines(h)

\* C17: an attached DefinitionDiff has status `added` exactly when every
\* line of the Definition is a new-side line of some hunk and no old-side
\* line is attributed to it, and status `updated` otherwise.  The 9-line
\* function at lines 1-9 with the single hunk {newStart 1, newCount 9,
\* oldCount 0} gets {added, 9, 0}; the function at lines 5-14 with the
\* single hunk {newStart 7, newCount 2, oldStart 7, oldCount 1} gets
\* status updated.
C17_Status ==
  Attributed =>
    /\ \A d \in RangeOf(definitions) :
         HasDiff(d) =>
           /\ d.diff.status \in {"added", "updated"}
           /\ d.diff.status = "added" <=> (Covered(d) /\ d.diff.deleted = 0)
    /\ (fileDiff.defined /\ fileDiff.hunks = << DiffHunk(0, 0, 1, 9) >>)
       => \A d \in RangeOf(definitions) :
            (d.line = 1 /\ d.endLine = 9)
            => HasDiff(d) /\ d.diff = DefinitionDiff("added", 9, 0)
    /\ (fileDiff.defined /\ fileDiff.hunks = << DiffHunk(7, 1, 7, 2) >>)
       => \A d \in RangeOf(definitions) :
            (d.line = 5 /\ d.endLine = 14)
            => HasDiff(d) /\ d.diff.status = "updated"

\* the 9-line function wholly added by one hunk
C17_Witness ==
  /\ Attributed
  /\ fileDiff.hunks = << DiffHunk(0, 0, 1, 9) >>
  /\ Len(definitions) = 1
  /\ definitions[1].line = 1
  /\ definitions[1].endLine = 9
  /\ HasDiff(definitions[1])
  /\ definitions[1].diff.status = "added"

\* the function at lines 5-14 with a two-line hunk in its body
C17_WitnessUpdated ==
  /\ Attributed
  /\ fileDiff.hunks = << DiffHunk(7, 1, 7, 2) >>
  /\ Len(definitions) = 1
  /\ definitions[1].line = 5
  /\ definitions[1].endLine = 14
  /\ HasDiff(definitions[1])
  /\ definitions[1].diff.status = "updated"

\* a Definition covered by hunks that carry old-side lines: updated
C17_WitnessCoveredUpdated ==
  /\ Attributed
  /\ \E d \in RangeOf(definitions) :
       HasDiff(d) /\ Covered(d) /\ d.diff.status = "updated"

RECURSIVE SumSeq(_)
SumSeq(seq) == IF seq = << >> THEN 0 ELSE Head(seq) + SumSeq(Tail(seq))

\* per hunk of the file: its new-side lines within d, and its old-side
\* lines when the hunk lies inside d / when it meets d at all
ClippedAdded(d) ==
  [i \in 1..Len(fileDiff.hunks) |->
     Cardinality(NewLines(fileDiff.hunks[i]) \cap LinesOf(d))]

DeletedInside(d) ==
  [i \in 1..Len(fileDiff.hunks) |->
     IF /\ NewLines(fileDiff.hunks[i]) # {}
        /\ NewLines(fileDiff.hunks[i]) \subseteq LinesOf(d)
     THEN fileDiff.hunks[i].oldCount ELSE 0]

DeletedMeeting(d) ==
  [i \in 1..Len(fileDiff.hunks) |->
     IF NewLines(fileDiff.hunks[i]) \cap LinesOf(d) # {}
     THEN fileDiff.hunks[i].oldCount ELSE 0]

C18_WitnessInside ==
  /\ Attributed
  /\ fileDiff.hunks = << DiffHunk(7, 1, 7, 2) >>
  /\ Len(definitions) = 1
  /\ HasDiff(definitions[1])
  /\ definitions[1].diff.added = 2
  /\ definitions[1].diff.deleted = 1

(***************************************************************************)
(* The scanner (scanner.ts): paths, the file filters and language          *)
(* detection.  A path is a sequence of one-character strings.              *)
(***************************************************************************)
MAX_FILES == 5000000

\* pLimit(20)
CONCURRENCY == 20

LANGUAGE_EXTENSIONS ==
  {[ext |-> <<".", "t", "s">>, language |-> "typescript"],
   [ext |-> <<".", "t", "s", "x">>, language |-> "typescript"],
   [ext |-> <<".", "m", "t", "s">>, language |-> "typescript"],
   [ext |-> <<".", "c", "t", "s">>, language |-> "typescript"],
   [ext |-> <<".", "j", "s">>, language |-> "javascript"],
   [ext |-> <<".", "j", "s", "x">>, language |-> "javascript"],
   [ext |-> <<".", "m", "j", "s">>, language |-> "javascript"],
   [ext |-> <<".", "c", "j", "s">>, language |-> "javascript"],
   [ext |-> <<".", "p", "y">>, language |-> "python"],
   [ext |-> <<".", "p", "y", "i">>, language |-> "python"],
   [ext |-> <<".", "r", "s">>, language |-> "rust"],
   [ext |-> <<".", "g", "o">>, language |-> "go"],
   [ext |-> <<".", "z", "i", "g">>, language |-> "zig"],
   [ext |-> <<".", "c">>, language |-> "cpp"],
   [ext |-> <<".", "h">>, language |-> "cpp"],
   [ext |-> <<".", "c", "p", "p">>, language |-> "cpp"],
   [ext |-> <<".", "c", "c">>, language |-> "cpp"],
   [ext |-> <<".", "c", "x", "x">>, language |-> "cpp"],
   [ext |-> <<".", "h", "p", "p">>, language |-> "cpp"],
   [ext |-> <<".", "h", "x", "x">>, language |-> "cpp"]}

SetMax(S) == CHOOSE x \in S : \A y \in S : y <= x

\* String.prototype.lastIndexOf, 0-based, -1 when absent
lastIndexOf(s, c) ==
  LET S == {i \in 1..Len(s) : s[i] = c}
  IN  IF S = {} THEN -1 ELSE SetMax(S) - 1

\* String.prototype.slice(k): a negative k counts from the end
slice(s, k) ==
  LET start == IF k < 0 THEN (IF Len(s) + k < 0 THEN 0 ELSE Len(s) + k)
               ELSE (IF k > Len(s) THEN Len(s) ELSE k)
  IN  SubSeq(s, start + 1, Len(s))

UpperLetters == <<"A", "B", "C", "D", "E", "F", "G", "H", "I", "J", "K", "L", "M", "N", "O", "P", "Q", "R", "S", "T", "U", "V", "W", "X", "Y", "Z">>
LowerLetters == <<"a", "b", "c", "d", "e", "f", "g", "h", "i", "j", "k", "l", "m", "n", "o", "p", "q", "r", "s", "t", "u", "v", "w", "x", "y", "z">>

toLowerCase(s) ==
  [i \in 1..Len(s) |->
     IF \E k \in 1..26 : UpperLetters[k] = s[i]
     THEN LowerLetters[CHOOSE k \in 1..26 : UpperLetters[k] = s[i]]
     ELSE s[i]]

extensionOf(filepath) == slice(filepath, lastIndexOf(filepath, "."))

isSupportedFile(filepath) ==
  \E e \in LANGUAGE_EXTENSIONS : e.ext = extensionOf(filepath)

\* the part after the last / or \, lower-cased, is readme.md or readme
isReadmeFile(filepath) ==
  LET cut == SetMax({lastIndexOf(filepath, "/"), lastIndexOf(filepath, "\\")})
      filename == toLowerCase(slice(filepath, cut + 1))
  IN  filename \in {<<"r", "e", "a", "d", "m", "e", ".", "m", "d">>, <<"r", "e", "a", "d", "m", "e">>}

\* "" when the extension maps to no language (null)
detectLanguage(filepath) ==
  IF isSupportedFile(filepath)
  THEN (CHOOSE e \in LANGUAGE_EXTENSIONS : e.ext = extensionOf(filepath)).language
  ELSE ""

\* relativePath.replace(/\\/g, '/')
normalizedPath(relativePath) ==
  [i \in 1..Len(relativePath) |->
     IF relativePath[i] = "\\" THEN "/" ELSE relativePath[i]]

(***************************************************************************)
(* A tracked file is a record                                              *)
(*   [relativePath, failure, found, description, rootNode, diff, stats]    *)
(* failure: "none", or the step of processFile that throws for this file   *)
(* ("read", "parse"); found / description: the header marker (for a README *)
(* the extracted description); rootNode: the tree parseCode returns for    *)
(* its content; diff, stats: what the diff of the working tree holds for   *)
(* its path.                                                               *)
(***************************************************************************)
FileResult(relativePath, description, defs, diff) ==
  [defined |-> TRUE, relativePath |-> relativePath,
   description |-> description, definitions |-> defs, diff |-> diff]

\* null
NoResult ==
  [defined |-> FALSE, relativePath |-> << >>, description |-> << >>,
   definitions |-> << >>, diff |-> NoStats]

FileDiffStats(added, deleted) ==
  [defined |-> TRUE, added |-> added, deleted |-> deleted]

\* picomatch(patterns)(f), the patterns being literal paths
matches(patterns, f) == \E i \in 1..Len(patterns) : patterns[i] = f

\* scanDirectory: the candidate files
filterFiles(fs, opts) ==
  LET supported(f) == isSupportedFile(f.relativePath)
                        \/ isReadmeFile(f.relativePath)
      included(f) == opts.filter = << >> \/ matches(opts.filter, f.relativePath)
      kept(f) == opts.ignore = << >> \/ ~matches(opts.ignore, f.relativePath)
  IN  SelectSeq(SelectSeq(SelectSeq(fs, supported), included), kept)

\* a lookup map keyed by normalized path: the entries of the files that
\* have the given field
RECURSIVE mapOf(_, _)
mapOf(fs, field) ==
  IF fs = << >> THEN << >>
  ELSE (IF Head(fs)[field].defined
        THEN << [key |-> normalizedPath(Head(fs).relativePath),
                 value |-> Head(fs)[field]] >>
        ELSE << >>)
       \o mapOf(Tail(fs), field)

\* the diff provider: both maps, or a failure
getAllDiffData(fs, fails) ==
  IF fails
  THEN [threw |-> TRUE, fileStats |-> NoMap, fileDiffs |-> NoMap]
  ELSE [threw |-> FALSE,
        fileStats |-> [defined |-> TRUE, entries |-> mapOf(fs, "stats")],
        fileDiffs |-> [defined |-> TRUE, entries |-> mapOf(fs, "diff")]]

\* the failure of the diff provider let through
diffDataRethrown(data) ==
  [rejected |-> data.threw, fileStats |-> data.fileStats,
   fileDiffs |-> data.fileDiffs]

\* scanDirectory: try { getAllDiffData } catch { both maps null }
diffDataOrNull(data) ==
  IF data.threw
  THEN [rejected |-> FALSE, fileStats |-> NoMap, fileDiffs |-> NoMap]
  ELSE [rejected |-> FALSE, fileStats |-> data.fileStats,
        fileDiffs |-> data.fileDiffs]

\* map?.get(key): `none` when the map is null or has no such key
get(map, key, none) ==
  IF map.defined /\ \E i \in 1..Len(map.entries) : map.entries[i].key = key
  THEN map.entries[SetMin({i \in 1..Len(map.entries) :
                             map.entries[i].key = key})].value
  ELSE none

Outcome(threw, value) == [threw |-> threw, value |-> value]

\* processFile: the outcomes of processing one file
processFile(file, fd, stats) ==
  IF isReadmeFile(file.relativePath)
  THEN IF file.failure # "none" THEN {Outcome(TRUE, NoResult)}
       ELSE IF ~truthy(file.description) THEN {Outcome(FALSE, NoResult)}
       ELSE {Outcome(FALSE, FileResult(file.relativePath, file.description,
                                       << >>, stats))}
  ELSE IF detectLanguage(file.relativePath) = ""
  THEN {Outcome(FALSE, NoResult)}
  ELSE IF file.failure = "read" THEN {Outcome(TRUE, NoResult)}
  ELSE IF ~file.found THEN {Outcome(FALSE, NoResult)}
  ELSE IF file.failure = "parse" THEN {Outcome(TRUE, NoResult)}
  ELSE {Outcome(FALSE, FileResult(file.relativePath, file.description, defs,
                                  stats)) :
          defs \in withDiff(extractDefinitions(
                              file.rootNode,
                              detectLanguage(file.relativePath)), fd)}

\* the failure of a task let through to Promise.all
settledRethrown(outcome) ==
  [rejected |-> outcome.threw, value |-> outcome.value]

\* the per-file task: try { processFile } catch { null }
settled(outcome) ==
  IF outcome.threw THEN [rejected |-> FALSE, value |-> NoResult]
  ELSE [rejected |-> FALSE, value |-> outcome.value]

\* a task of the pool; `order` is its rank among the settled tasks (0 while
\* it has not settled)
Task(pc_, fd, stats, result) ==
  [pc |-> pc_, fileDiff |-> fd, stats |-> stats, result |-> result,
   order |-> 0]

\* files.map(...): the tasks handed to the pool, each with its lookups
spawn(fs, diffs, statsMap) ==
  [i \in 1..Len(fs) |->
     Task("queued",
          get(diffs, normalizedPath(fs[i].relativePath), NoFileDiff),
          get(statsMap, normalizedPath(fs[i].relativePath), NoStats),
          NoResult)]

\* the task that settled k-th
settledAt(ts, k) == CHOOSE i \in 1..Len(ts) : ts[i].order = k

\* the results collected as the tasks settle
nonNullByCompletion(ts) ==
  LET done == Cardinality({i \in 1..Len(ts) : ts[i].order > 0})
      RECURSIVE from(_)
      from(k) ==
        IF k > done THEN << >>
        ELSE (IF ts[settledAt(ts, k)].result.defined
              THEN << ts[settledAt(ts, k)].result >> ELSE << >>)
             \o from(k + 1)
  IN  from(1)

\* Promise.all(resultPromises), then results.filter(r => r !== null)
RECURSIVE nonNull(_)
nonNull(ts) ==
  IF ts = << >> THEN << >>
  ELSE (IF Head(ts).result.defined THEN << Head(ts).result >> ELSE << >>)
       \o nonNull(Tail(ts))

Running == {i \in 1..Len(tasks) : tasks[i].pc = "running"}

(***************************************************************************)
(* Inputs of a scan: the tracked files of the repository, in the order of  *)
(* `git ls-files`, and the options                                         *)
(***************************************************************************)
MaxFiles == 3

File(path, failure, found, description, root, diff, stats) ==
  [relativePath |-> path, failure |-> failure, found |-> found,
   description |-> description, rootNode |-> root, diff |-> diff,
   stats |-> stats]

PathReadme == <<"R", "E", "A", "D", "M", "E", ".", "m", "d">>
PathA == <<"a", ".", "t", "s">>
PathPy == <<"c", ".", "p", "y">>
PathB == <<"d", "\\", "b", ".", "g", "o">>
PathE == <<"b", ".", "t", "s">>
PathTxt == <<"x", ".", "t", "x", "t">>

\* the paths in the order git lists them
PathOrder == << PathReadme, PathA, PathE, PathPy, PathB, PathTxt >>

Description == <<"d">>

\* the function at lines 1-9, unchanged, wholly added, or with stats only
FilesA ==
  {File(PathA, "none", TRUE, Description,
        Program(<< DiffFunction("typescript", NameA, 9) >>), v.diff, v.stats) :
     v \in {[diff |-> NoFileDiff, stats |-> NoStats],
            [diff |-> FileDiff(normalizedPath(PathA), << DiffHunk(0, 0, 1, 9) >>),
             stats |-> FileDiffStats(9, 0)],
            [diff |-> NoFileDiff, stats |-> FileDiffStats(1, 1)]}}

\* the function at lines 5-14, unchanged or with a hunk in its body
FilesB ==
  {File(PathB, "none", TRUE, NoText,
        Program(<< DiffFunction("go", NameB, 4), DiffFunction("go", NameA, 10) >>),
        v.diff, v.stats) :
     v \in {[diff |-> NoFileDiff, stats |-> NoStats],
            [diff |-> FileDiff(normalizedPath(PathB), << DiffHunk(7, 1, 7, 2) >>),
             stats |-> FileDiffStats(2, 1)]}}

FilesReadme ==
  {File(PathReadme, "none", TRUE, Description, NullNode, NoFileDiff, s) :
     s \in {NoStats, FileDiffStats(1, 0)}}

\* a file whose reading or parsing throws
FilesE ==
  {File(PathE, f, TRUE, Description,
        Program(<< DiffFunction("typescript", NameA, 6),
                   DiffFunction("typescript", NameB, 6) >>),
        FileDiff(normalizedPath(PathE), << DiffHunk(0, 0, 1, 9) >>),
        FileDiffStats(9, 0)) :
     f \in {"read", "parse"}}

\* a file without header marker, and one of no supported language
FilePy ==
  File(PathPy, "none", FALSE, NoText, Program(<< >>), NoFileDiff, NoStats)
FileTxt ==
  File(PathTxt, "none", FALSE, NoText, NullNode, NoFileDiff, NoStats)

FileCases(path) ==
  CASE path = PathReadme -> FilesReadme
    [] path = PathA -> FilesA
    [] path = PathB -> FilesB
    [] path = PathE -> FilesE
    [] path = PathPy -> {FilePy}
    [] OTHER -> {FileTxt}

\* the lists of at most MaxFiles files, from the path at position k on
RECURSIVE TrackedFrom(_, _)
TrackedFrom(k, n) ==
  IF k > Len(PathOrder) \/ n = 0 THEN {<< >>}
  ELSE TrackedFrom(k + 1, n)
         \cup {<< f >> \o rest :
                 f \in FileCases(PathOrder[k]), rest \in TrackedFrom(k + 1, n - 1)}

TrackedLists == TrackedFrom(1, MaxFiles)

ScanOptions ==
  [diff : BOOLEAN, ignore : {<< >>, << PathPy >>},
   filter : {<< >>, << PathA, PathE >>}]

(***************************************************************************)
(* The state machine of one scanDirectory call                             *)
(***************************************************************************)
ScanInit ==
  /\ tracked \in TrackedLists
  /\ options \in ScanOptions
  /\ diffFails \in (IF options.diff THEN BOOLEAN ELSE {FALSE})
  /\ files = << >>
  /\ fileStats = NoMap
  /\ fileDiffs = NoMap
  /\ diffCalls = 0
  /\ tasks = << >>
  /\ scanPc = "start"
  /\ results = << >>
  /\ language = "typescript"
  /\ rootNode = NullNode
  /\ pc = "idle"
  /\ definitions = << >>
  /\ fileDiff = NoFileDiff
  /\ NoComponents

extractorVars == <<language, rootNode, pc, definitions, fileDiff>>

\* git ls-files, the filters and the ceiling on the number of files
ScanList ==
  /\ scanPc = "start"
  /\ files' = filterFiles(tracked, options)
  /\ IF Len(files') > MAX_FILES
     THEN scanPc' = "returned"
     ELSE scanPc' = "listed"
  /\ UNCHANGED <<tracked, options, diffFails, fileStats, fileDiffs, diffCalls,
                 tasks, results, extractorVars, componentVars>>

\* the diff of the working tree, when asked for
ScanDiff ==
  /\ scanPc = "listed"
  /\ IF options.diff
     THEN LET data == diffDataOrNull(getAllDiffData(tracked, diffFails))
          IN  /\ diffCalls' = diffCalls + 1
              /\ fileStats' = data.fileStats
              /\ fileDiffs' = data.fileDiffs
              /\ scanPc' = IF data.rejected THEN "rejected" ELSE "diffed"
     ELSE /\ scanPc' = "diffed"
          /\ UNCHANGED <<fileStats, fileDiffs, diffCalls>>
  /\ UNCHANGED <<tracked, options, diffFails, files, tasks, results,
                 extractorVars, componentVars>>

\* one task per file is handed to the pool
ScanSpawn ==
  /\ scanPc = "diffed"
  /\ tasks' = spawn(files, fileDiffs, fileStats)
  /\ scanPc' = "running"
  /\ UNCHANGED <<tracked, options, diffFails, files, fileStats, fileDiffs,
                 diffCalls, results, extractorVars, componentVars>>

\* a task that asks the diff provider itself when it starts
TaskStartDiffing(i) ==
  /\ scanPc = "running"
  /\ tasks[i].pc = "queued"
  /\ \A j \in 1..(i - 1) : tasks[j].pc # "queued"
  /\ Cardinality(Running) < CONCURRENCY
  /\ tasks' = [tasks EXCEPT ![i].pc = "running"]
  /\ diffCalls' = IF options.diff THEN diffCalls + 1 ELSE diffCalls
  /\ UNCHANGED <<tracked, options, diffFails, files, fileStats, fileDiffs,
                 scanPc, results, extractorVars, componentVars>>

\* the pool starts the oldest queued task when fewer than CONCURRENCY run
TaskStart(i) ==
  /\ scanPc = "running"
  /\ tasks[i].pc = "queued"
  /\ \A j \in 1..(i - 1) : tasks[j].pc # "queued"
  /\ Cardinality(Running) < CONCURRENCY
  /\ tasks' = [tasks EXCEPT ![i].pc = "running"]
  /\ UNCHANGED <<tracked, options, diffFails, files, fileStats, fileDiffs,
                 diffCalls, scanPc, results, extractorVars, componentVars>>

\* a running task settles with the result of processFile, or null
TaskFinish(i) ==
  /\ scanPc = "running"
  /\ tasks[i].pc = "running"
  /\ \E o \in processFile(files[i], tasks[i].fileDiff, tasks[i].stats) :
       LET s == settled(o)
       IN  /\ tasks' = [tasks EXCEPT
                        ![i].pc = "done", ![i].result = s.value,
                        ![i].order =
                          1 + Cardinality({j \in 1..Len(tasks) :
                                             tasks[j].pc = "done"})]
           /\ scanPc' = IF s.rejected THEN "rejected" ELSE scanPc
  /\ UNCHANGED <<tracked, options, diffFails, files, fileStats, fileDiffs,
                 diffCalls, results, extractorVars, componentVars>>

\* Promise.all resolves: the non-null results, in the order of the files
ScanReturn ==
  /\ scanPc = "running"
  /\ \A i \in 1..Len(tasks) : tasks[i].pc = "done"
  /\ results' = nonNull(tasks)
  /\ scanPc' = "returned"
  /\ UNCHANGED <<tracked, options, diffFails, files, fileStats, fileDiffs,
                 diffCalls, tasks, extractorVars, componentVars>>

ScanNext ==
  \/ ScanList
  \/ ScanDiff
  \/ ScanSpawn
  \/ \E i \in 1..Len(tasks) : TaskStart(i)
  \/ \E i \in 1..Len(tasks) : TaskFinish(i)
  \/ ScanReturn

SpecScan == ScanInit /\ [][ScanNext]_vars

(***************************************************************************)
(* Properties of a scan                                                    *)
(***************************************************************************)
Returned == scanPc = "returned"

\* processing the file throws
Throws(f) ==
  IF isReadmeFile(f.relativePath) THEN f.failure # "none"
  ELSE f.failure = "read" \/ (f.failure = "parse" /\ f.found)

\* the file has an entry in the inventory when processing it succeeds
Reportable(f) ==
  IF isReadmeFile(f.relativePath) THEN f.description # NoText ELSE f.found

DefinitionsOfFile(f) ==
  IF isReadmeFile(f.relativePath) THEN << >>
  ELSE extractDefinitions(f.rootNode, detectLanguage(f.relativePath))

\* the result of a scan without diff: per reportable file, in file order,
\* its Definitions as extracted and no diff field
RECURSIVE PlainResults(_)
PlainResults(fs) ==
  IF fs = << >> THEN << >>
  ELSE (IF Reportable(Head(fs)) /\ ~Throws(Head(fs))
        THEN << FileResult(Head(fs).relativePath, Head(fs).description,
                           DefinitionsOfFile(Head(fs)), NoStats) >>
        ELSE << >>)
       \o PlainResults(Tail(fs))

FileOf(r) ==
  CHOOSE f \in RangeOf(files) : f.relativePath = r.relativePath

\* C19: a failure of the diff provider never makes the scan fail, and the
\* scan then returns exactly what a scan with diff disabled returns: for
\* every reportable file, in order, its Definitions as extracted, with no
\* diff field on any Definition or file.  When the provider succeeds, a
\* file that has FileDiffStats but no FileDiff gets its Definitions
\* unannotated (and its stats as the file's diff).
C19_DiffAbsence ==
  /\ scanPc # "rejected"
  /\ (Returned /\ (~options.diff \/ diffFails))
     => /\ results = PlainResults(files)
        /\ \A r \in RangeOf(results) :
             /\ ~r.diff.defined
             /\ \A d \in RangeOf(r.definitions) : ~HasDiff(d)
  /\ (Returned /\ options.diff /\ ~diffFails)
     => \A r \in RangeOf(results) :
          (FileOf(r).stats.defined /\ ~FileOf(r).diff.defined)
          => /\ r.definitions = DefinitionsOfFile(FileOf(r))
             /\ r.diff = FileOf(r).stats

\* a scan with diff enabled whose provider failed, over a file whose diff
\* would have annotated a Definition
C19_Witness ==
  /\ Returned
  /\ options.diff
  /\ diffFails
  /\ \E r \in RangeOf(results) :
       /\ FileOf(r).diff.defined
       /\ r.definitions # << >>
       /\ ~HasDiff(r.definitions[1])

\* the provider succeeded and a file has stats but no FileDiff
C19_WitnessStatsOnly ==
  /\ Returned
  /\ options.diff
  /\ ~diffFails
  /\ \E r \in RangeOf(results) :
       /\ r.diff.defined
       /\ ~FileOf(r).diff.defined
       /\ r.definitions # << >>

\* the list without its element i
Without(fs, i) == SubSeq(fs, 1, i - 1) \o SubSeq(fs, i + 1, Len(fs))

\* what the provider holds for a file, when the diff is in effect
DiffInEffect == options.diff /\ ~diffFails

\* the possible results of the scan of a list of files none of which fails
RECURSIVE ExpectedResults(_)
ExpectedResults(fs) ==
  IF fs = << >> THEN {<< >>}
  ELSE LET f == Head(fs)
           here ==
             IF Reportable(f) /\ ~Throws(f)
             THEN {<< FileResult(f.relativePath, f.description, defs,
                                 IF DiffInEffect THEN f.stats ELSE NoStats) >> :
                     defs \in IF DiffInEffect /\ f.diff.defined
                              THEN applyDiffToDefinitions(DefinitionsOfFile(f),
                                                          f.diff)
                              ELSE {DefinitionsOfFile(f)}}
             ELSE {<< >>}
       IN  {h \o rest : h \in here, rest \in ExpectedResults(Tail(fs))}

\* C20: a file whose processing throws never makes the scan fail; the file
\* has no entry in the result, and the result is the one the scan gives
\* for the same file list without that file.
C20_FailureIsolation ==
  /\ scanPc # "rejected"
  /\ Returned =>
       \A i \in 1..Len(files) :
         Throws(files[i])
         => /\ \A r \in RangeOf(results) :
                 r.relativePath # files[i].relativePath
            /\ results \in ExpectedResults(Without(files, i))

\* a scan of three files of which the second fails and the others are
\* reported
C20_Witness ==
  /\ Returned
  /\ Len(files) = 3
  /\ Throws(files[2])
  /\ Len(results) = 2
  /\ results[1].relativePath = files[1].relativePath
  /\ results[2].relativePath = files[3].relativePath

(***************************************************************************)
(* The scan seen through the length of its file list: the ceiling on the   *)
(* number of files and the worker pool.  The files themselves are not      *)
(* represented; `candidates` is files.length after the three filters.      *)
(***************************************************************************)
\* the longest file list whose tasks are followed one by one; of a longer
\* list the first MaxCandidates tasks are followed
MaxCandidates == 22

\* the ceiling taken as reached by MAX_FILES files
tooManyFilesInclusive(n) == n >= MAX_FILES

\* scanDirectory: files.length > MAX_FILES
tooManyFiles(n) == n > MAX_FILES

\* a pool that starts every task at once
hasCapacityUnbounded(activeCount) == TRUE

\* pLimit(20): a task is started while fewer than 20 are running
hasCapacity(activeCount) == activeCount < CONCURRENCY

\* the variables a component leaves alone
outsidePool ==
  <<language, rootNode, pc, definitions, fileDiff, scanVars, parserVars,
    mapVars, pluginVars>>
outsideParser ==
  <<language, rootNode, pc, definitions, fileDiff, scanVars, poolVars,
    mapVars, pluginVars>>
outsideMap ==
  <<language, rootNode, pc, definitions, fileDiff, scanVars, poolVars,
    parserVars, pluginVars>>
outsidePlugin ==
  <<language, rootNode, pc, definitions, fileDiff, scanVars, poolVars,
    parserVars, mapVars>>

PoolInit ==
  /\ candidates \in (0..MaxCandidates) \cup {MAX_FILES, MAX_FILES + 1}
  /\ includeDiff \in BOOLEAN
  /\ poolPc = "start"
  /\ diffInvocations = 0
  /\ queued = 0
  /\ active = 0
  /\ finished = 0
  /\ reported = 0
  /\ language = "typescript"
  /\ rootNode = NullNode
  /\ pc = "idle"
  /\ definitions = << >>
  /\ fileDiff = NoFileDiff
  /\ NoScan
  /\ NoParser
  /\ NoBuild
  /\ NoPlugin

\* the file list is filtered and its length held against the ceiling
PoolList ==
  /\ poolPc = "start"
  /\ poolPc' = IF tooManyFiles(candidates) THEN "returned" ELSE "listed"
  /\ UNCHANGED <<candidates, includeDiff, diffInvocations, queued, active,
                 finished, reported, outsidePool>>

\* if (includeDiff) try { getAllDiffData(dir) } catch { }
PoolDiff ==
  /\ poolPc = "listed"
  /\ diffInvocations' = IF includeDiff THEN diffInvocations + 1
                        ELSE diffInvocations
  /\ poolPc' = "diffed"
  /\ UNCHANGED <<candidates, includeDiff, queued, active, finished, reported,
                 outsidePool>>

\* files.map(relativePath => limit(...)): one task per file is queued
PoolSpawn ==
  /\ poolPc = "diffed"
  /\ queued' = candidates
  /\ poolPc' = "running"
  /\ UNCHANGED <<candidates, includeDiff, diffInvocations, active, finished,
                 reported, outsidePool>>

\* the pool starts a queued task: processFile is called for its file
PoolStart ==
  /\ poolPc = "running"
  /\ queued > 0
  /\ hasCapacity(active)
  /\ active + finished < MaxCandidates
  /\ queued' = queued - 1
  /\ active' = active + 1
  /\ UNCHANGED <<candidates, includeDiff, poolPc, diffInvocations, finished,
                 reported, outsidePool>>

\* a running task settles, with a FileResult or with null
PoolFinish ==
  /\ poolPc = "running"
  /\ active > 0
  /\ active' = active - 1
  /\ finished' = finished + 1
  /\ \E result \in BOOLEAN :
       reported' = IF result THEN reported + 1 ELSE reported
  /\ UNCHANGED <<candidates, includeDiff, poolPc, diffInvocations, queued,
                 outsidePool>>

\* Promise.all resolves once every task has settled
PoolReturn ==
  /\ poolPc = "running"
  /\ finished = candidates
  /\ poolPc' = "returned"
  /\ UNCHANGED <<candidates, includeDiff, diffInvocations, queued, active,
                 finished, reported, outsidePool>>

PoolNext ==
  \/ PoolList
  \/ PoolDiff
  \/ PoolSpawn
  \/ PoolStart
  \/ PoolFinish
  \/ PoolReturn

SpecPool == PoolInit /\ [][PoolNext]_vars

\* C21: when more than MAX_FILES candidate files are left after the
\* filters, the scan returns at once with an empty result: the diff
\* provider is not invoked and no file is read or parsed (no task is
\* queued, started or finished).  With exactly MAX_FILES files, or fewer,
\* the scan proceeds: the provider is invoked when diff is asked for, one
\* task is made per file, and the scan returns only after every task has
\* settled.
C21_FileCeiling ==
  /\ (candidates > MAX_FILES /\ poolPc # "start")
     => /\ poolPc = "returned"
        /\ reported = 0
        /\ diffInvocations = 0
        /\ queued = 0 /\ active = 0 /\ finished = 0
  /\ (candidates <= MAX_FILES /\ poolPc \in {"diffed", "running", "returned"})
     => diffInvocations = (IF includeDiff THEN 1 ELSE 0)
  /\ (candidates <= MAX_FILES /\ poolPc \in {"running", "returned"})
     => queued + active + finished = candidates
  /\ (candidates <= MAX_FILES /\ poolPc = "returned")
     => finished = candidates

\* a scan with diff asked for returned over one file too many
C21_Witness ==
  /\ candidates = MAX_FILES + 1
  /\ includeDiff
  /\ poolPc = "returned"

\* a scan of exactly MAX_FILES files is processing files, the provider
\* having been invoked
C21_WitnessAtCeiling ==
  /\ candidates = MAX_FILES
  /\ poolPc = "running"
  /\ diffInvocations = 1
  /\ active > 0
  /\ finished > 0

\* C24: at every moment of a scan at most 20 per-file tasks are in
\* flight, whatever the number of files and the order of completion.
C24_BoundedPool == active <= CONCURRENCY

\* 20 tasks are in flight while others wait and others have finished
C24_Witness ==
  /\ active = CONCURRENCY
  /\ queued > 0
  /\ finished > 0

\* some per-file task has been started
SomeTaskStarted == \E i \in 1..Len(tasks) : tasks[i].pc # "queued"

PathsOf(xs) == [k \in 1..Len(xs) |-> xs[k].relativePath]

\* ps can be obtained from qs by leaving elements out
RECURSIVE IsSubsequence(_, _)
IsSubsequence(ps, qs) ==
  IF ps = << >> THEN TRUE
  ELSE IF qs = << >> THEN FALSE
  ELSE IF Head(ps) = Head(qs) THEN IsSubsequence(Tail(ps), Tail(qs))
  ELSE IsSubsequence(ps, Tail(qs))

\* C28: the scan returns the FileResults in the order of the filtered file
\* list, at most one per file, whatever the order in which the per-file
\* tasks completed.
C28_ResultOrder ==
  Returned =>
    /\ IsSubsequence(PathsOf(results), PathsOf(files))
    /\ \A i \in 1..Len(files) :
         Cardinality({k \in 1..Len(results) :
                        results[k].relativePath = files[i].relativePath}) <= 1

\* the scan has returned two results whose tasks completed in the opposite
\* order
C28_Witness ==
  /\ Returned
  /\ Len(results) >= 2
  /\ \E i, j \in 1..Len(tasks) :
       /\ i < j
       /\ tasks[i].result.defined
       /\ tasks[j].result.defined
       /\ tasks[j].order < tasks[i].order

(***************************************************************************)
(* The parser module: parser/index.ts (initParser, getParser, parseCode,   *)
(* resetParser) and parser/languages.ts (ensureParserInit, loadGrammar,    *)
(* clearGrammarCache).  A parseCode call is a sequence of steps, one per   *)
(* stretch of code between two awaits; steps of different calls            *)
(* interleave, the statements of one step do not.                          *)
(***************************************************************************)
MaxCalls == 2
MaxResets == 1
MaxClears == 1

ParseLanguages == {"typescript", "go"}

\* a Parser.Language object: the grammar of a language, as loaded by a call
Grammar(lang, call) == [language |-> lang, loadedBy |-> call]
NoGrammar == Grammar("", 0)

\* a Parser object, with the grammar set on it
ParserObject(grammar, deleted) == [language |-> grammar, deleted |-> deleted]

\* a parseCode call: its arguments, its position, its locals `parser` and
\* `grammar`, the grammar its parse ran with, and whether another call was
\* in flight when it began
Call(lang) ==
  [language |-> lang, pc |-> "idle", parser |-> 0, grammar |-> NoGrammar,
   parsedWith |-> NoGrammar, concurrent |-> FALSE]

InFlight == {c \in 1..Len(calls) : calls[c].pc \notin {"idle", "done"}}

\* a parser that keeps the first grammar set on it
setLanguageKept(parser, grammar) ==
  IF parser.language = NoGrammar THEN [parser EXCEPT !.language = grammar]
  ELSE parser

\* parser.setLanguage(grammar)
setLanguage(parser, grammar) == [parser EXCEPT !.language = grammar]

ParseInit ==
  /\ initialized = FALSE
  /\ sharedParser = 0
  /\ parserInitialized = FALSE
  /\ grammarCache = [l \in ParseLanguages |-> NoGrammar]
  /\ parsers = << >>
  /\ runtimeInits = [initParser |-> 0, ensureParserInit |-> 0]
  /\ loads = [l \in ParseLanguages |-> [started |-> 0, inserted |-> 0]]
  /\ resets = 0
  /\ clears = 0
  /\ calls \in {[c \in 1..MaxCalls |-> Call(ls[c])] :
                  ls \in [1..MaxCalls -> ParseLanguages]}
  /\ language = "typescript"
  /\ rootNode = NullNode
  /\ pc = "idle"
  /\ definitions = << >>
  /\ fileDiff = NoFileDiff
  /\ NoScan
  /\ NoPool
  /\ NoBuild
  /\ NoPlugin

\* parseCode is called: getParser runs up to its first await
\* (sharedParser, or initParser, or Parser.init)
ParseBegin(c) ==
  /\ calls[c].pc = "idle"
  /\ \A b \in 1..(c - 1) : calls[b].pc # "idle"
  /\ IF sharedParser # 0
     THEN /\ calls' = [calls EXCEPT ![c].pc = "gotParser",
                                    ![c].parser = sharedParser,
                                    ![c].concurrent = InFlight # {}]
          /\ UNCHANGED runtimeInits
     ELSE IF initialized
     THEN /\ calls' = [calls EXCEPT ![c].pc = "inited",
                                    ![c].concurrent = InFlight # {}]
          /\ UNCHANGED runtimeInits
     ELSE /\ calls' = [calls EXCEPT ![c].pc = "initing",
                                    ![c].concurrent = InFlight # {}]
          /\ runtimeInits' = [runtimeInits EXCEPT !.initParser = @ + 1]
  /\ UNCHANGED <<initialized, sharedParser, parserInitialized, grammarCache,
                 parsers, loads, resets, clears, outsideParser>>

\* initParser resumes after Parser.init(): initialized = true
InitDone(c) ==
  /\ calls[c].pc = "initing"
  /\ initialized' = TRUE
  /\ calls' = [calls EXCEPT ![c].pc = "inited"]
  /\ UNCHANGED <<sharedParser, parserInitialized, grammarCache, parsers,
                 runtimeInits, loads, resets, clears, outsideParser>>

\* getParser resumes after initParser: sharedParser = new Parser()
CreateParser(c) ==
  /\ calls[c].pc = "inited"
  /\ parsers' = Append(parsers, ParserObject(NoGrammar, FALSE))
  /\ sharedParser' = Len(parsers) + 1
  /\ calls' = [calls EXCEPT ![c].pc = "gotParser",
                            ![c].parser = Len(parsers) + 1]
  /\ UNCHANGED <<initialized, parserInitialized, grammarCache, runtimeInits,
                 loads, resets, clears, outsideParser>>

\* parseCode resumes after getParser and calls loadGrammar, which runs
\* ensureParserInit up to its first await
LoadGrammar(c) ==
  /\ calls[c].pc = "gotParser"
  /\ IF ~parserInitialized
     THEN /\ runtimeInits' = [runtimeInits EXCEPT !.ensureParserInit = @ + 1]
          /\ calls' = [calls EXCEPT ![c].pc = "ensuring"]
     ELSE /\ calls' = [calls EXCEPT ![c].pc = "ensured"]
          /\ UNCHANGED runtimeInits
  /\ UNCHANGED <<initialized, sharedParser, parserInitialized, grammarCache,
                 parsers, loads, resets, clears, outsideParser>>

\* ensureParserInit resumes after Parser.init(): parserInitialized = true
EnsureDone(c) ==
  /\ calls[c].pc = "ensuring"
  /\ parserInitialized' = TRUE
  /\ calls' = [calls EXCEPT ![c].pc = "ensured"]
  /\ UNCHANGED <<initialized, sharedParser, grammarCache, parsers,
                 runtimeInits, loads, resets, clears, outsideParser>>

\* loadGrammar resumes after ensureParserInit: the cached grammar, or
\* Parser.Language.load(path)
CacheLookup(c) ==
  /\ calls[c].pc = "ensured"
  /\ IF grammarCache[calls[c].language] # NoGrammar
     THEN /\ calls' = [calls EXCEPT
                         ![c].pc = "gotGrammar",
                         ![c].grammar = grammarCache[calls[c].language]]
          /\ UNCHANGED loads
     ELSE /\ calls' = [calls EXCEPT ![c].pc = "loading"]
          /\ loads' = [loads EXCEPT ![calls[c].language].started = @ + 1]
  /\ UNCHANGED <<initialized, sharedParser, parserInitialized, grammarCache,
                 parsers, runtimeInits, resets, clears, outsideParser>>

\* loadGrammar resumes after the load: grammarCache.set(language, grammar)
LoadDone(c) ==
  /\ calls[c].pc = "loading"
  /\ grammarCache' = [grammarCache EXCEPT
                        ![calls[c].language] = Grammar(calls[c].language, c)]
  /\ loads' = [loads EXCEPT ![calls[c].language].inserted = @ + 1]
  /\ calls' = [calls EXCEPT ![c].pc = "gotGrammar",
                            ![c].grammar = Grammar(calls[c].language, c)]
  /\ UNCHANGED <<initialized, sharedParser, parserInitialized, parsers,
                 runtimeInits, resets, clears, outsideParser>>

\* parseCode resumes after loadGrammar: parser.setLanguage(grammar) and
\* parser.parse(code)
Parse(c) ==
  /\ calls[c].pc = "gotGrammar"
  /\ parsers' = [parsers EXCEPT
                   ![calls[c].parser] = setLanguage(@, calls[c].grammar)]
  /\ calls' = [calls EXCEPT
                 ![c].pc = "done",
                 ![c].parsedWith = parsers'[calls[c].parser].language]
  /\ UNCHANGED <<initialized, sharedParser, parserInitialized, grammarCache,
                 runtimeInits, loads, resets, clears, outsideParser>>

\* resetParser(), called (by tests) while no parseCode call is in flight
ResetParser ==
  /\ resets < MaxResets
  /\ InFlight = {}
  /\ resets' = resets + 1
  /\ IF sharedParser # 0
     THEN /\ parsers' = [parsers EXCEPT ![sharedParser].deleted = TRUE]
          /\ sharedParser' = 0
     ELSE UNCHANGED <<parsers, sharedParser>>
  /\ initialized' = FALSE
  /\ UNCHANGED <<parserInitialized, grammarCache, runtimeInits, loads, clears,
                 calls, outsideParser>>

\* clearGrammarCache(), called (by tests) while no parseCode call is in
\* flight
ClearGrammarCache ==
  /\ clears < MaxClears
  /\ InFlight = {}
  /\ clears' = clears + 1
  /\ grammarCache' = [l \in ParseLanguages |-> NoGrammar]
  /\ UNCHANGED <<initialized, sharedParser, parserInitialized, parsers,
                 runtimeInits, loads, resets, calls, outsideParser>>

ParseNext ==
  \/ \E c \in 1..Len(calls) : ParseBegin(c)
  \/ \E c \in 1..Len(calls) : InitDone(c)
  \/ \E c \in 1..Len(calls) : CreateParser(c)
  \/ \E c \in 1..Len(calls) : LoadGrammar(c)
  \/ \E c \in 1..Len(calls) : EnsureDone(c)
  \/ \E c \in 1..Len(calls) : CacheLookup(c)
  \/ \E c \in 1..Len(calls) : LoadDone(c)
  \/ \E c \in 1..Len(calls) : Parse(c)
  \/ ResetParser
  \/ ClearGrammarCache

SpecParse == ParseInit /\ [][ParseNext]_vars

\* C22: as long as clearGrammarCache is not called, the grammar of a
\* language is loaded at most once and inserted into the grammar cache at
\* most once, whatever the interleaving of the loadGrammar calls.
C22_GrammarLoadedOnce ==
  clears = 0 =>
    \A l \in ParseLanguages :
      /\ loads[l].started <= 1
      /\ loads[l].inserted <= 1

Parsed == {c \in 1..Len(calls) : calls[c].pc = "done"}

\* C26: as long as resetParser is not called, initParser initialises the
\* tree-sitter runtime (Parser.init) at most once, at most one Parser
\* instance is created, and every parse runs on that one instance,
\* whatever the interleaving of the parseCode calls.
C26_SingleParser ==
  resets = 0 =>
    /\ runtimeInits.initParser <= 1
    /\ Len(parsers) <= 1
    /\ \A c, d \in Parsed : calls[c].parser = calls[d].parser

\* C27: whatever the interleaving of parseCode calls for different
\* languages, the parse of each call runs with a grammar of the language
\* that call asked for.
C27_OwnGrammar ==
  \A c \in Parsed :
    /\ calls[c].parsedWith # NoGrammar
    /\ calls[c].parsedWith.language = calls[c].language

\* two calls for different languages have parsed on the same Parser
\* instance, the second having begun while the first was in flight
C27_Witness ==
  \E c, d \in Parsed :
    /\ c # d
    /\ calls[c].language # calls[d].language
    /\ calls[c].parser = calls[d].parser
    /\ calls[d].concurrent

(***************************************************************************)
(* The map builder: buildMap, insertFile, formatFileDiff and               *)
(* formatDefinition.  Strings are sequences of one-character strings; an   *)
(* object with optional keys is a function whose domain holds the keys     *)
(* that are present.  The nested MapNode is held as the set of its file    *)
(* entries, each under the sequence of path segments that leads to it.     *)
(***************************************************************************)
MaxResults == 2

Digits == <<"0", "1", "2", "3", "4", "5", "6", "7", "8", "9">>

\* `${n}` for a non-negative integer: its decimal digits
RECURSIVE numberToString(_)
numberToString(n) ==
  IF n < 10 THEN << Digits[n + 1] >>
  ELSE numberToString(n \div 10) \o << Digits[(n % 10) + 1] >>

\* parts.join(separator)
RECURSIVE join(_, _)
join(parts, separator) ==
  IF parts = << >> THEN << >>
  ELSE IF Len(parts) = 1 THEN parts[1]
  ELSE parts[1] \o separator \o join(Tail(parts), separator)

\* text.split(separator), the separator being one character
RECURSIVE split(_, _)
split(text, separator) ==
  IF \A i \in 1..Len(text) : text[i] # separator THEN << text >>
  ELSE LET i == SetMin({j \in 1..Len(text) : text[j] = separator})
       IN  << SubSeq(text, 1, i - 1) >>
             \o split(SubSeq(text, i + 1, Len(text)), separator)

\* the characters of a DefinitionType or DefinitionStatus
textOf(word) ==
  CASE word = "added" -> <<"a", "d", "d", "e", "d">>
    [] word = "updated" -> <<"u", "p", "d", "a", "t", "e", "d">>
    [] word = "function" -> <<"f", "u", "n", "c", "t", "i", "o", "n">>
    [] word = "class" -> <<"c", "l", "a", "s", "s">>
    [] word = "type" -> <<"t", "y", "p", "e">>
    [] word = "interface" -> <<"i", "n", "t", "e", "r", "f", "a", "c", "e">>
    [] word = "const" -> <<"c", "o", "n", "s", "t">>
    [] word = "enum" -> <<"e", "n", "u", "m">>
    [] word = "struct" -> <<"s", "t", "r", "u", "c", "t">>
    [] word = "union" -> <<"u", "n", "i", "o", "n">>
    [] word = "trait" -> <<"t", "r", "a", "i", "t">>
    [] OTHER -> << >>

\* the counts of a diff as "+N", "-M" or both
diffParts(diff) ==
  (IF diff.added > 0 THEN << <<"+">> \o numberToString(diff.added) >>
   ELSE << >>)
  \o (IF diff.deleted > 0 THEN << <<"-">> \o numberToString(diff.deleted) >>
      ELSE << >>)

\* formatFileDiff(diff)
formatFileDiff(diff) == join(diffParts(diff), << >>)

\* formatDefinition(def): "line 13, function, exported, updated (+5-2)"
formatDefinition(def) ==
  LET lineStr == <<"l", "i", "n", "e", " ">> \o numberToString(def.line)
      counts == IF HasDiff(def) THEN diffParts(def.diff) ELSE << >>
      parts ==
        << lineStr, textOf(def.type) >>
        \o (IF def.exported THEN << <<"e", "x", "p", "o", "r", "t", "e", "d">> >> ELSE << >>)
        \o (IF ~HasDiff(def) THEN << >>
            ELSE IF Len(counts) > 0
            THEN << textOf(def.diff.status) \o <<" ", "(">>
                    \o join(counts, << >>) \o <<")">> >>
            ELSE << textOf(def.diff.status) >>)
  IN  join(parts, <<",", " ">>)

\* the `defs` object of a file entry: one key per name, the last
\* Definition of a name deciding its text
defsOf(defs) ==
  [name \in {defs[i].name : i \in 1..Len(defs)} |->
     formatDefinition(
       defs[SetMax({i \in 1..Len(defs) : defs[i].name = name})])]

\* insertFile: the FileEntry made for a result
fileEntry(result) ==
  (IF truthy(result.description)
   THEN "description" :> result.description ELSE << >>)
  @@ (IF result.diff.defined
      THEN "diff" :> formatFileDiff(result.diff) ELSE << >>)
  @@ (IF Len(result.definitions) > 0
      THEN "defs" :> defsOf(result.definitions) ELSE << >>)

\* insertFile(root, result): current[filename] = entry at the end of the
\* directories of the path, replacing what was there
insertFile(node, result) ==
  LET parts == split(result.relativePath, "/")
  IN  {e \in node : e.path # parts}
        \cup {[path |-> parts, entry |-> fileEntry(result)]}

(***************************************************************************)
(* Inputs of buildMap: FileResults as scanDirectory returns them           *)
(***************************************************************************)
\* line counts of a file's FileDiffStats (git diff --numstat)
StatCounts == {0, 3, 15}

AllStats ==
  {NoStats} \cup {FileDiffStats(a, d) : a \in StatCounts, d \in StatCounts}

MapPathB == <<"d", "/", "b", ".", "g", "o">>

MapDefinition == Definition(NameA, 5, 14, "function", TRUE, FALSE)

ResultsReadme ==
  {FileResult(PathReadme, Description, << >>, s) :
     s \in {NoStats, FileDiffStats(15, 0)}}

ResultsA ==
  {FileResult(PathA, description, << >>, s) :
     description \in {NoText, Description}, s \in AllStats}

ResultsB ==
  {FileResult(MapPathB, Description, defs, s) :
     defs \in {<< MapDefinition >>,
               << [diff |-> DefinitionDiff("added", 10, 0)] @@ MapDefinition >>,
               << [diff |-> DefinitionDiff("updated", 3, 15)]
                    @@ MapDefinition >>},
     s \in {NoStats, FileDiffStats(3, 15)}}

ResultCases == << ResultsReadme, ResultsA, ResultsB >>

\* the lists of at most n results, from the file at position k on
RECURSIVE ResultsFrom(_, _)
ResultsFrom(k, n) ==
  IF k > Len(ResultCases) \/ n = 0 THEN {<< >>}
  ELSE ResultsFrom(k + 1, n)
         \cup {<< r >> \o rest :
                 r \in ResultCases[k], rest \in ResultsFrom(k + 1, n - 1)}

MapInit ==
  /\ buildResults \in ResultsFrom(1, MaxResults)
  /\ buildIndex = 0
  /\ mapRoot = {}
  /\ language = "typescript"
  /\ rootNode = NullNode
  /\ pc = "idle"
  /\ definitions = << >>
  /\ fileDiff = NoFileDiff
  /\ NoScan
  /\ NoPool
  /\ NoParser
  /\ NoPlugin

\* buildMap: one turn of `for (const result of results) insertFile(...)`
InsertFile ==
  /\ buildIndex < Len(buildResults)
  /\ mapRoot' = insertFile(mapRoot, buildResults[buildIndex + 1])
  /\ buildIndex' = buildIndex + 1
  /\ UNCHANGED <<buildResults, outsideMap>>

MapNext == InsertFile

SpecMap == MapInit /\ [][MapNext]_vars

\* the entry of the map for a result that has been inserted
EntryOf(result) ==
  (CHOOSE e \in mapRoot : e.path = split(result.relativePath, "/")).entry

\* C25: for every FileDiffStats attached to a file, the diff string of the
\* file's entry is "+N-M" when both counts are positive, "+N" when only
\* added is positive and "-M" when only deleted is positive; an entry that
\* carries a diff field never has an empty diff string.
C25_FileDiffString ==
  \A k \in 1..buildIndex :
    LET result == buildResults[k]
        entry == EntryOf(result)
        plus == <<"+">> \o numberToString(result.diff.added)
        minus == <<"-">> \o numberToString(result.diff.deleted)
    IN  /\ result.diff.defined
           => /\ "diff" \in DOMAIN entry
              /\ (result.diff.added > 0 /\ result.diff.deleted > 0)
                 => entry.diff = plus \o minus
              /\ (result.diff.added > 0 /\ result.diff.deleted = 0)
                 => entry.diff = plus
              /\ (result.diff.added = 0 /\ result.diff.deleted > 0)
                 => entry.diff = minus
        /\ "diff" \in DOMAIN entry => entry.diff # << >>

(***************************************************************************)
(* The OpenCode plugin (opencode/src/index.ts): the hooks `chat.message`   *)
(* and `experimental.chat.system.transform` over the closure variables     *)
(* cachedYaml and lastSessionID.  `epoch` counts the session changes seen  *)
(* by chat.message; a YAML text carries the epoch in which its generation  *)
(* was started.  "yaml" stands for the YAML text of a map with entries.    *)
(***************************************************************************)
MaxTransforms == 3
MaxMessages == 2

Sessions == {"s1", "s2"}

\* what generateMap finds: no file with a header, some, or a failure
Repositories == {"empty", "files", "unreadable"}

\* a string, remembered with the epoch of its generation
Yaml(value, e) == [defined |-> TRUE, value |-> value, epoch |-> e]
\* undefined
NoYaml == [defined |-> FALSE, value |-> "", epoch |-> 0]

\* !cachedYaml is false: a string that is not empty
isCached(yaml) == yaml.defined /\ yaml.value # ""

\* an invocation of the transform hook: whether output.system already has
\* an <agentmap> tag, the epoch in which it began, and what it pushed
\* onto output.system
Transform ==
  [pc |-> "idle", tagged |-> FALSE, began |-> 0, generatedIn |-> 0,
   injected |-> NoYaml]

PluginInit ==
  /\ cachedYaml = NoYaml
  /\ lastSessionID = ""
  /\ transforms = [t \in 1..MaxTransforms |-> Transform]
  /\ epoch = 0
  /\ messages = 0
  /\ generations = [e \in 0..MaxMessages |-> 0]
  /\ repository \in Repositories
  /\ language = "typescript"
  /\ rootNode = NullNode
  /\ pc = "idle"
  /\ definitions = << >>
  /\ fileDiff = NoFileDiff
  /\ NoScan
  /\ NoPool
  /\ NoParser
  /\ NoBuild

\* 'chat.message': a new sessionID clears the cache
ChatMessage(sessionID) ==
  /\ messages < MaxMessages
  /\ messages' = messages + 1
  /\ IF sessionID # lastSessionID
     THEN /\ lastSessionID' = sessionID
          /\ cachedYaml' = NoYaml
          /\ epoch' = epoch + 1
     ELSE UNCHANGED <<lastSessionID, cachedYaml, epoch>>
  /\ UNCHANGED <<transforms, generations, repository, outsidePlugin>>

\* the transform hook is invoked and runs up to `await generateMap(...)`,
\* or to its end when the output is tagged or the cache is filled
TransformBegin(t, tagged) ==
  /\ transforms[t].pc = "idle"
  /\ \A u \in 1..(t - 1) : transforms[u].pc # "idle"
  /\ IF tagged
     THEN /\ transforms' = [transforms EXCEPT
                              ![t].pc = "done", ![t].tagged = TRUE,
                              ![t].began = epoch]
          /\ UNCHANGED generations
     ELSE IF ~isCached(cachedYaml)
     THEN /\ transforms' = [transforms EXCEPT
                              ![t].pc = "generating", ![t].began = epoch,
                              ![t].generatedIn = epoch]
          /\ generations' = [generations EXCEPT ![epoch] = @ + 1]
     ELSE /\ transforms' = [transforms EXCEPT
                              ![t].pc = "done", ![t].began = epoch,
                              ![t].injected = cachedYaml]
          /\ UNCHANGED generations
  /\ UNCHANGED <<cachedYaml, lastSessionID, epoch, messages, repository,
                 outsidePlugin>>

\* the hook resumes after generateMap: the cache is filled ('' for an
\* empty map) and a text that is not blank is pushed; a failure of
\* generateMap is caught and logged
TransformFinish(t) ==
  /\ transforms[t].pc = "generating"
  /\ IF repository = "unreadable"
     THEN /\ transforms' = [transforms EXCEPT ![t].pc = "done"]
          /\ UNCHANGED cachedYaml
     ELSE LET yaml == Yaml(IF repository = "empty" THEN "" ELSE "yaml",
                           transforms[t].generatedIn)
          IN  /\ cachedYaml' = yaml
              /\ transforms' = [transforms EXCEPT
                                  ![t].pc = "done",
                                  ![t].injected =
                                    IF yaml.value = "" THEN NoYaml ELSE yaml]
  /\ UNCHANGED <<lastSessionID, epoch, messages, generations, repository,
                 outsidePlugin>>

PluginNext ==
  \/ \E s \in Sessions : ChatMessage(s)
  \/ \E t \in 1..Len(transforms), tagged \in BOOLEAN :
       TransformBegin(t, tagged)
  \/ \E t \in 1..Len(transforms) : TransformFinish(t)

SpecPlugin == PluginInit /\ [][PluginNext]_vars

\* C29: within one session (between two session changes) the plugin
\* generates the map at most once, however many transform hooks are
\* invoked and however they interleave, an empty generated map included.
C29_GeneratedOncePerSession ==
  \A e \in DOMAIN generations : generations[e] <= 1

\* C30: every map injected by a transform hook that was invoked after a
\* session change comes from a generation started after that change: a
\* generation started in the previous session never fills the cache the
\* new session reads.
C30_NoStaleMap ==
  /\ \A t \in 1..Len(transforms) :
       (transforms[t].pc = "done" /\ transforms[t].injected.defined)
       => transforms[t].injected.epoch >= transforms[t].began
  /\ cachedYaml.defined => cachedYaml.epoch = epoch

\* a chat.message with the sessionID last seen leaves the cache untouched
UnchangedSessionKeepsCache ==
  [][\A s \in Sessions :
       (ChatMessage(s) /\ s = lastSessionID) => cachedYaml' = cachedYaml]_vars

====
